---- MODULE Spec2Model ----
(***************************************************************************)
(* Bootstrap orchestrator of kubernetes-bootstrap (bootstrap_cluster.py)   *)
(* with the topology resolver of inventory_parser.py.                      *)
(*                                                                         *)
(* The main thread walks the seven pipeline steps of bootstrap_cluster;    *)
(* the two parallel steps run their per-node operations on a               *)
(* ThreadPoolExecutor while the main thread collects the futures with      *)
(* as_completed.  A per-node operation is taken from the work queue by a   *)
(* pool thread and later completes; the outcome of every remote call (ssh  *)
(* command, scp copy) is chosen by the environment.                        *)
(*                                                                         *)
(* Further specifications step through parts of the system on their own:   *)
(* SpecTopology the constructor resolving the topology of an inventory,    *)
(* SpecExtract the line-by-line scan of _extract_join_commands, SpecRemove *)
(* remove_node of scripts/remove_node.py, SpecAdd add_node and             *)
(* add_nodes_from_inventory of scripts/add_node.py, SpecResolve the three  *)
(* resolver operations called with a control-plane count, SpecParse the    *)
(* record-by-record normalization of an inventory file, SpecMain the main  *)
(* function of bootstrap_cluster.py with its dry run and exit status,      *)
(* SpecRemote (SpecRemoteLive under fairness) the remote calls of a step   *)
(* function through run_ssh_command and copy_file_to_host, SpecLookup the  *)
(* two maintenance tools from the construction of NodeRemover / NodeAdder. *)
(***************************************************************************)
EXTENDS Integers, Sequences, FiniteSets, TLC

(***************************************************************************)
(* Bounds of the model.                                                    *)
(***************************************************************************)
\* largest inventory (number of parsed hosts)
MaxNodes == 6
\* most per-node operations of one parallel step that the environment fails
MaxFaults == 1
\* most lines of a kubeadm init transcript
MaxLines == 2
\* largest inventory handed to remove_node.py
MaxMembers == 2
\* most nodes handed to add_nodes_from_inventory
MaxBatch == 3
\* largest control-plane count handed to the resolver
MaxCount == 4
\* most records of an inventory file parsed record by record
MaxRows == 2
\* largest inventory main of bootstrap_cluster.py bootstraps (not a dry run)
MaxHosts == 4

(***************************************************************************)
(* Program constants.                                                      *)
(***************************************************************************)
\* ThreadPoolExecutor(max_workers=5)
max_workers == 5
\* get_control_plane_nodes(3), get_worker_nodes(3), "if i < 3"
control_plane_count == 3

Min(a, b) == IF a < b THEN a ELSE b

(***************************************************************************)
(* Inventory and topology resolver (inventory_parser.py).                  *)
(***************************************************************************)
\* _normalize_host: a host record; the role defaults to worker
normalize_host(h) == [hostname |-> h, role |-> "worker"]

\* parse(): the ordered sequence of normalized hosts of an n-record inventory
parse(n) == [i \in 1..n |-> normalize_host(i)]

\* what a row of the inventory file can say about the role of its host
RowRoles == {"absent", "control-plane", "master"}

\* _normalize_host of the h-th row: the role of the row when it has one
normalize_row(h, r) ==
    IF r = "absent" THEN normalize_host(h)
    ELSE [normalize_host(h) EXCEPT !.role = r]

\* parse() of an inventory file given by the roles of its rows
parse_file(rows) == [i \in 1..Len(rows) |-> normalize_row(i, rows[i])]

Inventories == UNION { [1..n -> RowRoles] : n \in 0..MaxNodes }

SetRole(hs, r) == [i \in 1..Len(hs) |-> [hs[i] EXCEPT !.role = r]]

\* hosts[:count] with the role rewritten to control-plane
get_control_plane_nodes(hs, count) ==
    SetRole(SubSeq(hs, 1, Min(count, Len(hs))), "control-plane")

\* variant: the worker slice keeps the roles of the file
get_worker_nodesKeepRole(hs, skip_first) ==
    SubSeq(hs, skip_first + 1, Len(hs))

\* hosts[skip_first:] with the role rewritten to worker
get_worker_nodes(hs, skip_first) ==
    SetRole(SubSeq(hs, skip_first + 1, Len(hs)), "worker")

\* every host, the first three as control-plane and the rest as worker
get_all_nodes(hs) ==
    [i \in 1..Len(hs) |->
        [hs[i] EXCEPT !.role = IF i - 1 < 3 THEN "control-plane" ELSE "worker"]]

(***************************************************************************)
(* _normalize_host over the keys of a raw record.  A raw record is a       *)
(* function from the keys the file gives to their values.                  *)
(***************************************************************************)
\* normalized = {...}: the defaults
defaults ==
    [hostname |-> "", ip_address |-> "", username |-> "root", ssh_port |-> 22,
     role |-> "worker", group |-> "default", os |-> "ubuntu",
     os_version |-> "22.04"]

\* key_mappings: the aliases of every standard key, in the order tried
key_mappings ==
    [hostname |-> <<"hostname", "host", "name", "fqdn">>,
     ip_address |-> <<"ip_address", "ip", "address">>,
     username |-> <<"username", "user", "login">>,
     ssh_port |-> <<"ssh_port", "port">>,
     role |-> <<"role", "type", "node_type">>,
     group |-> <<"group", "cluster">>,
     os |-> <<"os", "operating_system">>,
     os_version |-> <<"os_version", "version">>]

\* variant: an alias is taken only when its value is non-empty
RECURSIVE FirstNonEmpty(_, _, _)
FirstNonEmpty(possible_keys, host_data, default) ==
    IF possible_keys = <<>> THEN default
    ELSE IF Head(possible_keys) \in DOMAIN host_data
            /\ host_data[Head(possible_keys)] # ""
         THEN host_data[Head(possible_keys)]
         ELSE FirstNonEmpty(Tail(possible_keys), host_data, default)

\* for key in possible_keys: if key in host_data: take host_data[key]; break
\* (the first alias the record has wins, whatever its value)
RECURSIVE FirstPresent(_, _, _)
FirstPresent(possible_keys, host_data, default) ==
    IF possible_keys = <<>> THEN default
    ELSE IF Head(possible_keys) \in DOMAIN host_data
         THEN host_data[Head(possible_keys)]
         ELSE FirstPresent(Tail(possible_keys), host_data, default)

\* the loop over key_mappings
MapKeys(host_data) ==
    [k \in DOMAIN key_mappings |->
        FirstPresent(key_mappings[k], host_data, defaults[k])]

InvalidHost == "ValueError: Host must have either hostname or IP address"

\* variant: a record without hostname and address is passed through
NormalizeUnchecked(host_data) ==
    LET normalized == MapKeys(host_data)
    IN [raised |-> "none",
        host |-> IF normalized.hostname = ""
                 THEN [normalized EXCEPT !.hostname = normalized.ip_address]
                 ELSE normalized]

\* _normalize_host: map the keys, raise ValueError when hostname and
\* ip_address are both falsy, use the address as hostname when the hostname
\* is falsy
Normalize(host_data) ==
    LET normalized == MapKeys(host_data)
    IN IF normalized.hostname = "" /\ normalized.ip_address = ""
       THEN [raised |-> InvalidHost, host |-> <<>>]
       ELSE [raised |-> "none",
             host |-> IF normalized.hostname = ""
                      THEN [normalized EXCEPT !.hostname = normalized.ip_address]
                      ELSE normalized]

\* the keys a record of the sampled files can have, and the values each
\* can take ("<absent>": the record does not have the key)
RawChoices ==
    [hostname |-> {"<absent>", "", "n1"},
     host |-> {"<absent>", "n2"},
     ip_address |-> {"<absent>", "", "a1"},
     ip |-> {"<absent>", "a2"}]

RawRecords ==
    { [k \in {k \in DOMAIN RawChoices : c[k] # "<absent>"} |-> c[k]] :
        c \in { c \in [DOMAIN RawChoices -> {"<absent>", "", "n1", "n2", "a1", "a2"}] :
                  \A k \in DOMAIN RawChoices : c[k] \in RawChoices[k] } }

RawFiles == UNION { [1..n -> RawRecords] : n \in 0..MaxRows }

(***************************************************************************)
(* Join credentials and the kubeadm init transcript.                       *)
(* A line is a sequence of tokens; "x in line" is token membership.        *)
(***************************************************************************)
Absent == [st |-> "absent", val |-> <<>>]     \* attribute not yet assigned
None == [st |-> "none", val |-> <<>>]
Str(l) == [st |-> "str", val |-> l]

Contains(line, tok) == \E i \in 1..Len(line) : line[i] = tok

RECURSIVE lstrip(_)
lstrip(l) == IF l # <<>> /\ Head(l) = " " THEN lstrip(Tail(l)) ELSE l

RECURSIVE rstrip(_)
rstrip(l) == IF l # <<>> /\ l[Len(l)] = " "
             THEN rstrip(SubSeq(l, 1, Len(l) - 1)) ELSE l

\* str.strip()
strip(l) == rstrip(lstrip(l))

\* variant: the worker branch is tested first and without the marker test
ExtractLineWorkerFirst(line, acc) ==
    IF Contains(line, "kubeadm join")
    THEN [acc EXCEPT !.worker = Str(strip(line))]
    ELSE IF Contains(line, "kubeadm join") /\ Contains(line, "--control-plane")
         THEN [acc EXCEPT !.cp = Str(strip(line))]
         ELSE acc

\* the body of the loop of _extract_join_commands for one line:
\*   if 'kubeadm join' in line and '--control-plane' in line: cp = line.strip()
\*   elif 'kubeadm join' in line and '--control-plane' not in line:
\*       worker = line.strip()
ExtractLine(line, acc) ==
    IF Contains(line, "kubeadm join") /\ Contains(line, "--control-plane")
    THEN [acc EXCEPT !.cp = Str(strip(line))]
    ELSE IF Contains(line, "kubeadm join") /\ ~Contains(line, "--control-plane")
         THEN [acc EXCEPT !.worker = Str(strip(line))]
         ELSE acc

\* _extract_join_commands: scan the lines in order, the last match wins
RECURSIVE ExtractFrom(_, _)
ExtractFrom(lines, acc) ==
    IF lines = <<>> THEN acc
    ELSE ExtractFrom(Tail(lines), ExtractLine(Head(lines), acc))

extract_join_commands(lines) == ExtractFrom(lines, [cp |-> None, worker |-> None])

\* lines a kubeadm init transcript is drawn from
SampleLines ==
    { <<"Your control-plane has initialized">>,
      <<" ", "kubeadm join", "tokA", "--control-plane">>,
      <<"kubeadm join", "tokB", " ">>,
      <<"kubeadm join", "tokC">>,
      <<"kubeadm join", "tokA", "--control-plane">>,
      <<"--control-plane", "endpoint">> }

Transcripts ==
    UNION { [1..k -> SampleLines] : k \in 0..MaxLines }

\* a Python value by its type; a bool carries int(value)
PyNone == [type |-> "NoneType", val |-> 0]
PyBool(b) == [type |-> "bool", val |-> IF b THEN 1 ELSE 0]
PyInt(k) == [type |-> "int", val |-> k]

(***************************************************************************)
(* Concurrent dispatcher helpers (ThreadPoolExecutor, as_completed).       *)
(***************************************************************************)
ParallelSteps == {1, 4}

\* a future holds a result or an exception
IsDone(v) == v \in {"true", "false", "exc"}

IsRunning(v) == v = "running"

InFlight(f) == Cardinality({i \in DOMAIN f : IsRunning(f[i])})

\* variant: a pool that starts a thread for every queued work item
WorkerAvailableUnbounded(f) == TRUE

\* a pool thread is free to take the next work item
WorkerAvailable(f) == InFlight(f) < max_workers

\* failures already injected into one parallel step
Faults(f) == Cardinality({i \in DOMAIN f : f[i] \in {"false", "exc"}})

\* variant: the except branch forgets to append
RecordSkipExc(r, v) == IF v = "exc" THEN r ELSE Append(r, v = "true")

\* try: results.append(future.result())  except Exception: results.append(False)
Record(r, v) == Append(r, v = "true")

\* variant: future.result() is called outside the try block
PropagatesExc(v) == v = "exc"

\* except Exception around future.result(): nothing escapes the loop
Propagates(v) == FALSE

\* variant: a fail-fast dispatcher that leaves the loop at the first failed
\* result and shuts the pool down without waiting
DispatchCompleteFailFast(f, c) ==
    \/ \A i \in DOMAIN f : i \in c /\ IsDone(f[i])
    \/ \E i \in c : f[i] # "true"

\* as_completed has yielded every submitted future and the with block has
\* shut the pool down with wait=True: no work item is queued or running
DispatchComplete(f, c) ==
    /\ \A i \in DOMAIN f : i \in c
    /\ \A i \in DOMAIN f : IsDone(f[i])

\* variant: the step returns the last result collected
LastResult(r) == r = <<>> \/ r[Len(r)]

\* variant: any() in place of all()
AnyResult(r) == r = <<>> \/ \E i \in 1..Len(r) : r[i]

\* built-in all()
All(r) == \A i \in 1..Len(r) : r[i]

Steps == 1..7

EntryPc(s) ==
    CASE s = 1 -> "prepare_all"
      [] s = 2 -> "init_render"
      [] s = 3 -> "join_cp"
      [] s = 4 -> "join_workers"
      [] s = 5 -> "net"
      [] s = 6 -> "storage_apply"
      [] s = 7 -> "verify_nodes"

VARIABLES
    nodes,                  \* self.nodes
    control_plane_nodes,    \* self.control_plane_nodes
    worker_nodes,           \* self.worker_nodes
    control_plane_join_cmd, \* self.control_plane_join_cmd
    worker_join_cmd,        \* self.worker_join_cmd
    pc,                     \* position of the main thread
    step,                   \* index of the pipeline step being executed
    started,                \* history: the steps started, in order
    stepResult,             \* outcome of each step
    runResult,              \* outcome of bootstrap_cluster
    fut,                    \* per parallel step: state of each future
    collected,              \* per parallel step: futures as_completed yielded
    results,                \* per parallel step: the results list
    cpIdx,                  \* loop index of join_control_plane_nodes
    cmds                    \* per host: remote calls made on it, in order

\* the inventory file and the loop of _extract_join_commands
VARIABLES
    inventory,              \* the rows of the inventory file, in order
    init_output,            \* the lines of the kubeadm init stdout
    line_no                 \* lines scanned so far (-1: not called)

\* NodeRemover (scripts/remove_node.py)
VARIABLES
    rm_nodes,               \* self.nodes
    rm_master,              \* self.master_info
    rm_args,                \* the command line of remove_node.py
    rm_pc,                  \* position inside main and remove_node
    rm_info,                \* what get_node_info returned to drain_node
    rm_drained,             \* what drain_node returned
    rm_log,                 \* remote calls made, in order
    rm_ret,                 \* what remove_node returned
    rm_exit                 \* the exit status of remove_node.py

\* NodeAdder (scripts/add_node.py)
VARIABLES
    ad_nodes,               \* self.nodes
    ad_master,              \* self.master_info
    ad_args,                \* master_node, entry point, new_nodes, node_type
    ad_pc,                  \* position inside add_node / add_nodes_from_inventory
    ad_idx,                 \* node of new_nodes being added
    ad_batch_cmd,           \* join_command of add_nodes_from_inventory
    ad_join_cmd,            \* join_command of add_node
    ad_log,                 \* remote calls and sleeps made, in order
    ad_rets,                \* what add_node returned, per node
    ad_count,               \* success_count
    ad_ret,                 \* what add_nodes_from_inventory returned
    ad_tokens               \* join commands the master has generated

\* the topology resolver called with a control-plane count
VARIABLES
    count                   \* the count the caller passes (K)

\* InventoryParser.parse (inventory_parser.py) over the raw records of a file
VARIABLES
    raw,                    \* the records of the file before normalization
    parse_pc,               \* position inside parse
    hosts,                  \* the list of normalized hosts built so far
    parse_exc               \* the exception that left parse

\* main of bootstrap_cluster.py
VARIABLES
    args,                   \* the parsed command line and the files it names
    cluster_config,         \* self.cluster_config
    stdout,                 \* the lines main and bootstrap_cluster print
                            \* on stdout that report a value (a count, a
                            \* setting, a step), in order; fixed banners
                            \* and the messages of the step functions are
                            \* not recorded
    stderr,                 \* what main printed on stderr, in order
    exit_code               \* the exit status of the process

\* one step function making its remote calls through run_ssh_command and
\* copy_file_to_host
VARIABLES
    rx_fn,                  \* the step function that is running
    rx_i,                   \* index of its current remote call
    rx_pc,                  \* position inside the current remote call
    rx_proc,                \* the child process of subprocess.run
    rx_ret,                 \* what the capability returned to the function
    rx_log,                 \* remote calls issued, in order
    rx_res                  \* what the step function returned

file == <<inventory, init_output, line_no>>
parser == <<raw, parse_pc, hosts, parse_exc>>
cli == <<args, cluster_config, stdout, stderr, exit_code>>
remote == <<rx_fn, rx_i, rx_pc, rx_proc, rx_ret, rx_log, rx_res>>
added == <<count, parser, cli, remote>>
remover == <<rm_nodes, rm_master, rm_args, rm_pc, rm_info, rm_drained, rm_log,
             rm_ret, rm_exit>>
adder == <<ad_nodes, ad_master, ad_args, ad_pc, ad_idx, ad_batch_cmd, ad_join_cmd, ad_log, ad_rets,
           ad_count, ad_ret, ad_tokens>>

\* what bootstrap_cluster.py never touches
other == <<file, remover, adder, added>>

\* what bootstrap_cluster never touches: it prints on stdout
rest == <<file, remover, adder, count, parser, remote, args, cluster_config,
          stderr, exit_code>>

vars == <<nodes, control_plane_nodes, worker_nodes, control_plane_join_cmd,
          worker_join_cmd, pc, step, started, stepResult, runResult, fut,
          collected, results, cpIdx, cmds, other>>

topo == <<nodes, control_plane_nodes, worker_nodes>>
creds == <<control_plane_join_cmd, worker_join_cmd>>
pool == <<fut, collected, results>>

\* variant: the worker join is dispatched over every node but the first
TasksOfAllButFirst(s) == IF s = 1 THEN nodes ELSE SubSeq(nodes, 2, Len(nodes))

\* the node list a parallel step dispatches over
TasksOf(s) == IF s = 1 THEN nodes ELSE worker_nodes

\* one remote call: what was run, the join credential it carried (Absent
\* for the other commands) and how it ended
Cmd(c, o) == [cmd |-> c, arg |-> Absent, rc |-> o]
JoinCmd(cred, o) == [cmd |-> "join", arg |-> cred, rc |-> o]

Log(h, c) == [cmds EXCEPT ![h] = Append(@, c)]

\* a printed line that reports a number, a text, the two node counts
Count_line(l, n) == [line |-> l, n |-> n]
Text_line(l, t) == [line |-> l, text |-> t]
Cluster_line(cp, w) == [line |-> "Cluster has", control_plane |-> cp, workers |-> w]

\* _extract_join_commands is not stepped through line by line
ExtractIdle ==
    /\ init_output = <<>>
    /\ line_no = -1

\* remove_node.py is not running
RemoverIdle ==
    /\ rm_nodes = <<>>
    /\ rm_master = None
    /\ rm_args = <<>>
    /\ rm_pc = "idle"
    /\ rm_info = "unset"
    /\ rm_drained = "notrun"
    /\ rm_log = <<>>
    /\ rm_ret = "none"
    /\ rm_exit = PyNone

\* add_node.py is not running
AdderIdle ==
    /\ ad_nodes = <<>>
    /\ ad_master = 0
    /\ ad_args = <<>>
    /\ ad_pc = "idle"
    /\ ad_idx = 0
    /\ ad_batch_cmd = Absent
    /\ ad_join_cmd = Absent
    /\ ad_log = <<>>
    /\ ad_rets = <<>>
    /\ ad_count = 0
    /\ ad_ret = PyNone
    /\ ad_tokens = 0

\* the resolver is called as the constructor calls it
ResolverIdle == count = control_plane_count

\* InventoryParser.parse is not stepped through record by record
ParserIdle ==
    /\ raw = <<>>
    /\ parse_pc = "idle"
    /\ hosts = <<>>
    /\ parse_exc = "none"

\* main of bootstrap_cluster.py is not stepped through
MainIdle ==
    /\ args = <<>>
    /\ cluster_config = <<>>
    /\ stdout = <<>>
    /\ stderr = <<>>
    /\ exit_code = PyNone

\* no remote call is stepped through
RemoteIdle ==
    /\ rx_fn = "none"
    /\ rx_i = 0
    /\ rx_pc = "idle"
    /\ rx_proc = "none"
    /\ rx_ret = PyNone
    /\ rx_log = <<>>
    /\ rx_res = PyNone

AddedIdle == ResolverIdle /\ ParserIdle /\ MainIdle /\ RemoteIdle

OtherIdle == ExtractIdle /\ RemoverIdle /\ AdderIdle /\ AddedIdle

\* KubernetesBootstrap.__init__ over an inventory of n hosts
Init ==
    \E n \in 0..MaxNodes :
        /\ inventory = [i \in 1..n |-> "absent"]
        /\ OtherIdle
        /\ nodes = get_all_nodes(parse(n))
        /\ control_plane_nodes = get_control_plane_nodes(parse(n), control_plane_count)
        /\ worker_nodes = get_worker_nodes(parse(n), control_plane_count)
        /\ control_plane_join_cmd = Absent
        /\ worker_join_cmd = Absent
        /\ pc = "bootstrap"
        /\ step = 0
        /\ started = <<>>
        /\ stepResult = [s \in Steps |-> "notrun"]
        /\ runResult = "none"
        /\ fut = [s \in ParallelSteps |-> <<>>]
        /\ collected = [s \in ParallelSteps |-> {}]
        /\ results = [s \in ParallelSteps |-> <<>>]
        /\ cpIdx = 0
        /\ cmds = [h \in 1..n |-> <<>>]

(***************************************************************************)
(* bootstrap_cluster: the step loop.                                       *)
(***************************************************************************)
\* variant: the loop of bootstrap_cluster ignores what the step returned
ReturnIgnored(ok) ==
    /\ stepResult' = [stepResult EXCEPT ![step] = IF ok THEN "ok" ELSE "fail"]
    /\ pc' = "loop"
    /\ runResult' = runResult
    /\ stdout' = stdout

\* the current step function returns ok to the loop of bootstrap_cluster:
\* "if not step_func(): print('Bootstrap failed at: ...'); return False"
Return(ok) ==
    /\ stepResult' = [stepResult EXCEPT ![step] = IF ok THEN "ok" ELSE "fail"]
    /\ pc' = IF ok THEN "loop" ELSE "done"
    /\ runResult' = IF ok THEN runResult ELSE "failure"
    /\ stdout' = IF ok THEN stdout
                 ELSE Append(stdout, Count_line("Bootstrap failed at", step))

\* an exception leaves the current step function and bootstrap_cluster
Raise ==
    /\ stepResult' = [stepResult EXCEPT ![step] = "raised"]
    /\ pc' = "done"
    /\ runResult' = "raised"
    /\ stdout' = stdout

\* bootstrap_cluster is entered: it prints the two node counts
BootstrapBegin ==
    /\ pc = "bootstrap"
    /\ stdout' = stdout \o
          <<Count_line("Control plane nodes", Len(control_plane_nodes)),
            Count_line("Worker nodes", Len(worker_nodes))>>
    /\ pc' = "loop"
    /\ UNCHANGED <<topo, rest, creds, step, started, stepResult, runResult,
                   pool, cpIdx, cmds>>

\* for step_name, step_func in steps: print the header of the step, then
\* step_func()
StartStep ==
    /\ pc = "loop"
    /\ step < 7
    /\ step' = step + 1
    /\ started' = Append(started, step + 1)
    /\ stepResult' = [stepResult EXCEPT ![step + 1] = "running"]
    /\ pc' = EntryPc(step + 1)
    /\ cpIdx' = IF step + 1 = 3 THEN 2 ELSE cpIdx
    /\ stdout' = Append(stdout, Count_line("---", step + 1))
    /\ UNCHANGED <<topo, rest, creds, runResult, pool, cmds>>

\* the loop is exhausted: print the two node counts and return True
Finish ==
    /\ pc = "loop"
    /\ step = 7
    /\ pc' = "done"
    /\ runResult' = "success"
    /\ stdout' = Append(stdout, Cluster_line(Len(control_plane_nodes),
                                             Len(worker_nodes)))
    /\ UNCHANGED <<topo, rest, creds, step, started, stepResult, pool, cpIdx, cmds>>

(***************************************************************************)
(* Parallel steps: prepare_all_nodes (step 1), join_worker_nodes (step 4). *)
(***************************************************************************)
\* prepare_all_nodes: the executor is created with an empty work queue
PrepareDispatch ==
    /\ pc = "prepare_all"
    /\ fut' = [fut EXCEPT ![1] = [i \in 1..Len(TasksOf(1)) |-> "new"]]
    /\ pc' = "submit"
    /\ UNCHANGED <<topo, rest, creds, step, started, stepResult, runResult, stdout,
                   collected, results, cpIdx, cmds>>

\* join_worker_nodes: "if not self.worker_nodes: return True"
JoinWorkersEmpty ==
    /\ pc = "join_workers"
    /\ Len(worker_nodes) = 0
    /\ Return(TRUE)
    /\ UNCHANGED <<topo, rest, creds, step, started, pool, cpIdx, cmds>>

\* join_worker_nodes: the executor is created with an empty work queue
JoinWorkersDispatch ==
    /\ pc = "join_workers"
    /\ Len(worker_nodes) # 0
    /\ fut' = [fut EXCEPT ![4] = [i \in 1..Len(TasksOf(4)) |-> "new"]]
    /\ pc' = "submit"
    /\ UNCHANGED <<topo, rest, creds, step, started, stepResult, runResult, stdout,
                   collected, results, cpIdx, cmds>>

\* executor.submit(op, host) for the next host of the dict comprehension
Submit(i) ==
    /\ pc = "submit"
    /\ i \in DOMAIN fut[step]
    /\ fut[step][i] = "new"
    /\ \A j \in 1..(i - 1) : fut[step][j] # "new"
    /\ fut' = [fut EXCEPT ![step][i] = "pending"]
    /\ UNCHANGED <<topo, rest, creds, pc, step, started, stepResult, runResult, stdout,
                   collected, results, cpIdx, cmds>>

\* every host is submitted: the main thread enters the as_completed loop
AsCompletedBegin ==
    /\ pc = "submit"
    /\ \A i \in DOMAIN fut[step] : fut[step][i] # "new"
    /\ pc' = "collect"
    /\ UNCHANGED <<topo, rest, creds, step, started, stepResult, runResult, stdout, pool,
                   cpIdx, cmds>>

\* a pool thread takes the oldest queued work item and starts the operation
WorkerStart(i) ==
    /\ step \in ParallelSteps
    /\ i \in DOMAIN fut[step]
    /\ fut[step][i] = "pending"
    /\ \A j \in 1..(i - 1) : fut[step][j] # "pending"
    /\ WorkerAvailable(fut[step])
    /\ fut' = [fut EXCEPT ![step][i] = "running"]
    /\ UNCHANGED <<topo, rest, creds, pc, step, started, stepResult, runResult, stdout,
                   collected, results, cpIdx, cmds>>

\* what the environment may answer to the remote calls of one per-node
\* operation: each call succeeds or fails (run_ssh_command and
\* copy_file_to_host turn every exception into a failure), and the operation's
\* own code may raise before its first remote call
Answers(f) == IF Faults(f) < MaxFaults THEN {"ok", "fail"} ELSE {"ok"}

Raises(f) == IF Faults(f) < MaxFaults THEN {FALSE, TRUE} ELSE {FALSE}

\* the remote calls of prepare_node, in order: the copy of the script
\* (copy_file_to_host), then "for cmd in commands" (run_ssh_command)
PrepareCalls == <<"scp_prepare", "chmod", "prepare">>

\* what the future of prepare_node holds after its call number k ended with
\* o: a call that fails makes it return False, the last one passing True,
\* and otherwise the operation goes on to its next call
AfterPrepareCall(k, o) ==
    IF o # "ok" THEN "false"
    ELSE IF k = Len(PrepareCalls) THEN "true" ELSE "running"

\* a pool thread inside prepare_node(host) for the i-th node: its next
\* remote call returns (the thread blocks in subprocess.run meanwhile), or
\* its own code raises before the first call
PrepareNode(i) ==
    /\ step = 1
    /\ i \in DOMAIN fut[1]
    /\ fut[1][i] = "running"
    /\ LET h == TasksOf(1)[i].hostname
           k == Len(cmds[h]) + 1
       IN \/ \E o \in Answers(fut[1]) :
                /\ cmds' = Log(h, Cmd(PrepareCalls[k], o))
                /\ fut' = [fut EXCEPT ![1][i] = AfterPrepareCall(k, o)]
          \/ /\ k = 1
             /\ TRUE \in Raises(fut[1])
             /\ fut' = [fut EXCEPT ![1][i] = "exc"]
             /\ UNCHANGED cmds
    /\ UNCHANGED <<topo, rest, creds, pc, step, started, stepResult, runResult, stdout,
                   collected, results, cpIdx>>

\* outcomes of run_ssh_command(host, <join credential>): with None as the
\* variant: a command of None is run as an empty command and can exit 0
JoinOutcomesNoneRuns(cred, allowed) ==
    CASE cred.st = "str" -> allowed
      [] cred.st = "none" -> allowed
      [] cred.st = "absent" -> {"raise"}

\* command subprocess.run raises TypeError, which run_ssh_command turns into
\* exit code -1; reading an attribute never assigned raises AttributeError
\* before the call is made
JoinOutcomes(cred, allowed) ==
    CASE cred.st = "str" -> allowed
      [] cred.st = "none" -> {"fail"}
      [] cred.st = "absent" -> {"raise"}

\* the log after a join call on host h that ended with o (no call is made
\* when the operation raised before it)
LogJoin(h, cred, o) ==
    IF o = "raise" THEN cmds ELSE Log(h, JoinCmd(cred, o))

\* variant: a join that succeeded clears the worker credential
JoinWorkerNodeConsumes(i) ==
    /\ step = 4
    /\ i \in DOMAIN fut[4]
    /\ fut[4][i] = "running"
    /\ \E raises \in Raises(fut[4]) :
       \E o \in IF raises THEN {"raise"}
                ELSE JoinOutcomes(worker_join_cmd, Answers(fut[4])) :
          /\ fut' = [fut EXCEPT ![4][i] =
                      CASE o = "ok" -> "true"
                        [] o = "fail" -> "false"
                        [] o = "raise" -> "exc"]
          /\ cmds' = LogJoin(TasksOf(4)[i].hostname, worker_join_cmd, o)
          /\ worker_join_cmd' = IF o = "ok" THEN None ELSE worker_join_cmd
    /\ UNCHANGED <<topo, rest, control_plane_join_cmd, pc, step, started,
                   stepResult, runResult, stdout, collected, results, cpIdx>>

\* a pool thread completes _join_worker_node(host) for the i-th worker:
\* run_ssh_command(host, self.worker_join_cmd, 600), True on exit code 0
JoinWorkerNode(i) ==
    /\ step = 4
    /\ i \in DOMAIN fut[4]
    /\ fut[4][i] = "running"
    /\ \E raises \in Raises(fut[4]) :
       \E o \in IF raises THEN {"raise"}
                ELSE JoinOutcomes(worker_join_cmd, Answers(fut[4])) :
          /\ fut' = [fut EXCEPT ![4][i] =
                      CASE o = "ok" -> "true"
                        [] o = "fail" -> "false"
                        [] o = "raise" -> "exc"]
          /\ cmds' = LogJoin(TasksOf(4)[i].hostname, worker_join_cmd, o)
    /\ UNCHANGED <<topo, rest, creds, pc, step, started, stepResult, runResult, stdout,
                   collected, results, cpIdx>>

\* one iteration of "for future in as_completed(future_to_host)"
Collect(i) ==
    /\ pc = "collect"
    /\ i \in DOMAIN fut[step]
    /\ i \notin collected[step]
    /\ IsDone(fut[step][i])
    /\ IF Propagates(fut[step][i])
       THEN /\ Raise
            /\ UNCHANGED <<collected, results>>
       ELSE /\ collected' = [collected EXCEPT ![step] = @ \cup {i}]
            /\ results' = [results EXCEPT ![step] = Record(@, fut[step][i])]
            /\ UNCHANGED <<pc, stepResult, runResult, stdout>>
    /\ UNCHANGED <<topo, rest, creds, step, started, fut, cpIdx, cmds>>

\* the loop ends, the with block shuts the pool down (wait=True),
\* "return all(results)"
ParallelReturn ==
    /\ pc = "collect"
    /\ DispatchComplete(fut[step], collected[step])
    /\ Return(All(results[step]))
    /\ UNCHANGED <<topo, rest, creds, step, started, pool, cpIdx, cmds>>

(***************************************************************************)
(* Sequential steps.                                                       *)
(***************************************************************************)
\* the first control-plane node
master_node == control_plane_nodes[1]

\* initialize_control_plane: master_node = self.control_plane_nodes[0]
\* (IndexError on an empty list), render the kubeadm config and write it
\* to the local file (open() may raise)
InitRender ==
    /\ pc = "init_render"
    /\ IF Len(control_plane_nodes) = 0
       THEN Raise
       ELSE \/ /\ pc' = "init_copy"
               /\ UNCHANGED <<stepResult, runResult, stdout>>
            \/ Raise
    /\ UNCHANGED <<topo, rest, creds, step, started, pool, cpIdx, cmds>>

\* variant: kubeadm init is run whether or not the config was copied
InitCopyUnchecked ==
    /\ pc = "init_copy"
    /\ \E o \in {"ok", "fail"} :
          cmds' = Log(control_plane_nodes[1].hostname, Cmd("scp_config", o))
    /\ pc' = "init_run"
    /\ UNCHANGED <<stepResult, runResult, stdout>>
    /\ UNCHANGED <<topo, rest, creds, step, started, pool, cpIdx>>

\* initialize_control_plane: copy_file_to_host(master_node, config_file, ...)
InitCopy ==
    /\ pc = "init_copy"
    /\ \/ /\ cmds' = Log(master_node.hostname, Cmd("scp_config", "ok"))
          /\ pc' = "init_run"
          /\ UNCHANGED <<stepResult, runResult, stdout>>
       \/ /\ cmds' = Log(master_node.hostname, Cmd("scp_config", "fail"))
          /\ Return(FALSE)
    /\ UNCHANGED <<topo, rest, creds, step, started, pool, cpIdx>>

\* variant: the exit code of kubeadm init is not checked
InitRunUnchecked ==
    /\ pc = "init_run"
    /\ \E o \in {"ok", "fail"} : \E out \in Transcripts :
          /\ cmds' = Log(control_plane_nodes[1].hostname, Cmd("init", o))
          /\ control_plane_join_cmd' = extract_join_commands(out).cp
          /\ worker_join_cmd' = extract_join_commands(out).worker
          /\ Return(TRUE)
    /\ UNCHANGED <<topo, rest, step, started, pool, cpIdx>>

\* initialize_control_plane: run kubeadm init (timeout 900); on exit code 0
\* extract the join commands from stdout and return True
InitRun ==
    /\ pc = "init_run"
    /\ \/ \E out \in Transcripts :
             /\ cmds' = Log(master_node.hostname, Cmd("init", "ok"))
             /\ control_plane_join_cmd' = extract_join_commands(out).cp
             /\ worker_join_cmd' = extract_join_commands(out).worker
             /\ Return(TRUE)
       \/ /\ cmds' = Log(master_node.hostname, Cmd("init", "fail"))
          /\ Return(FALSE)
          /\ UNCHANGED creds
    /\ UNCHANGED <<topo, rest, step, started, pool, cpIdx>>

\* join_control_plane_nodes: "if len(self.control_plane_nodes) <= 1: return True"
JoinCPSingle ==
    /\ pc = "join_cp"
    /\ Len(control_plane_nodes) <= 1
    /\ Return(TRUE)
    /\ UNCHANGED <<topo, rest, creds, step, started, pool, cpIdx, cmds>>

\* variant: a failed control-plane join is reported and the loop goes on
JoinCPNodeContinue ==
    /\ pc = "join_cp"
    /\ Len(control_plane_nodes) > 1
    /\ cpIdx <= Len(control_plane_nodes)
    /\ \E o \in JoinOutcomes(control_plane_join_cmd, {"ok", "fail"}) :
          /\ cmds' = LogJoin(control_plane_nodes[cpIdx].hostname,
                             control_plane_join_cmd, o)
          /\ cpIdx' = cpIdx + 1
          /\ UNCHANGED <<pc, stepResult, runResult, stdout>>
    /\ UNCHANGED <<topo, rest, creds, step, started, pool>>

\* variant: the control-plane nodes are sent the worker credential
JoinCPNodeAsWorker ==
    /\ pc = "join_cp"
    /\ Len(control_plane_nodes) > 1
    /\ cpIdx <= Len(control_plane_nodes)
    /\ \E o \in JoinOutcomes(worker_join_cmd, {"ok", "fail"}) :
          /\ cmds' = LogJoin(control_plane_nodes[cpIdx].hostname,
                             worker_join_cmd, o)
          /\ CASE o = "ok" -> /\ cpIdx' = cpIdx + 1
                              /\ UNCHANGED <<pc, stepResult, runResult, stdout>>
               [] o = "fail" -> /\ Return(FALSE)
                                /\ UNCHANGED cpIdx
               [] o = "raise" -> /\ Raise
                                 /\ UNCHANGED cpIdx
    /\ UNCHANGED <<topo, rest, creds, step, started, pool>>

\* join_control_plane_nodes: one iteration of
\* "for node in self.control_plane_nodes[1:]"
JoinCPNode ==
    /\ pc = "join_cp"
    /\ Len(control_plane_nodes) > 1
    /\ cpIdx <= Len(control_plane_nodes)
    /\ \E o \in JoinOutcomes(control_plane_join_cmd, {"ok", "fail"}) :
          /\ cmds' = LogJoin(control_plane_nodes[cpIdx].hostname,
                             control_plane_join_cmd, o)
          /\ CASE o = "ok" -> /\ cpIdx' = cpIdx + 1
                              /\ UNCHANGED <<pc, stepResult, runResult, stdout>>
               [] o = "fail" -> /\ Return(FALSE)
                                /\ UNCHANGED cpIdx
               [] o = "raise" -> /\ Raise
                                 /\ UNCHANGED cpIdx
    /\ UNCHANGED <<topo, rest, creds, step, started, pool>>

\* join_control_plane_nodes: the loop is exhausted, "return True"
JoinCPDone ==
    /\ pc = "join_cp"
    /\ Len(control_plane_nodes) > 1
    /\ cpIdx > Len(control_plane_nodes)
    /\ Return(TRUE)
    /\ UNCHANGED <<topo, rest, creds, step, started, pool, cpIdx, cmds>>

\* one kubectl command on the master node: on exit code 0 go on to
\* position next (or return True when it was the last), else return False
MasterCommand(at, c, next) ==
    /\ pc = at
    /\ \/ /\ cmds' = Log(master_node.hostname, Cmd(c, "ok"))
          /\ IF next = "return"
             THEN Return(TRUE)
             ELSE /\ pc' = next
                  /\ UNCHANGED <<stepResult, runResult, stdout>>
       \/ /\ cmds' = Log(master_node.hostname, Cmd(c, "fail"))
          /\ Return(FALSE)
    /\ UNCHANGED <<topo, rest, creds, step, started, pool, cpIdx>>

\* setup_networking: kubectl apply of the flannel manifest
SetupNetworking == MasterCommand("net", "flannel", "return")

\* setup_storage: kubectl apply of the local-path provisioner
StorageApply == MasterCommand("storage_apply", "storage", "storage_patch")

\* setup_storage: kubectl patch marking the storage class default
StoragePatch == MasterCommand("storage_patch", "patch", "return")

\* verify_cluster: kubectl get nodes
VerifyNodes == MasterCommand("verify_nodes", "get_nodes", "verify_pods")

\* verify_cluster: kubectl get pods
VerifyPods == MasterCommand("verify_pods", "get_pods", "return")

Next ==
    \/ BootstrapBegin
    \/ StartStep
    \/ Finish
    \/ PrepareDispatch
    \/ JoinWorkersEmpty
    \/ JoinWorkersDispatch
    \/ \E i \in 1..MaxNodes : Submit(i)
    \/ AsCompletedBegin
    \/ \E i \in 1..MaxNodes : WorkerStart(i)
    \/ \E i \in 1..MaxNodes : PrepareNode(i)
    \/ \E i \in 1..MaxNodes : JoinWorkerNode(i)
    \/ \E i \in 1..MaxNodes : Collect(i)
    \/ ParallelReturn
    \/ InitRender
    \/ InitCopy
    \/ InitRun
    \/ JoinCPSingle
    \/ JoinCPNode
    \/ JoinCPDone
    \/ SetupNetworking
    \/ StorageApply
    \/ StoragePatch
    \/ VerifyNodes
    \/ VerifyPods

Spec == Init /\ [][Next]_vars

(***************************************************************************)
(* _extract_join_commands, one line of the transcript at a time.           *)
(***************************************************************************)
pipeline == <<pc, step, started, stepResult, runResult, pool, cpIdx, cmds>>

\* no pipeline step has run
PipelineQuiet ==
    /\ step = 0
    /\ started = <<>>
    /\ stepResult = [s \in Steps |-> "notrun"]
    /\ runResult = "none"
    /\ fut = [s \in ParallelSteps |-> <<>>]
    /\ collected = [s \in ParallelSteps |-> {}]
    /\ results = [s \in ParallelSteps |-> <<>>]
    /\ cpIdx = 0
    /\ cmds = <<>>

\* bootstrap_cluster.py is not running
PipelineIdle == pc = "idle" /\ PipelineQuiet

\* no KubernetesBootstrap object has been constructed
TopologyUnset ==
    /\ nodes = <<>>
    /\ control_plane_nodes = <<>>
    /\ worker_nodes = <<>>

\* _extract_join_commands is about to be called on the stdout of kubeadm init
ExtractInit ==
    \E out \in Transcripts :
        /\ init_output = out
        /\ line_no = -1
        /\ control_plane_join_cmd = Absent
        /\ worker_join_cmd = Absent
        /\ inventory = <<>>
        /\ TopologyUnset
        /\ PipelineIdle
        /\ RemoverIdle
        /\ AdderIdle
        /\ AddedIdle

\* self.control_plane_join_cmd = None; self.worker_join_cmd = None
ExtractBegin ==
    /\ line_no = -1
    /\ line_no' = 0
    /\ control_plane_join_cmd' = None
    /\ worker_join_cmd' = None
    /\ UNCHANGED <<topo, pipeline, inventory, init_output, remover, adder, added>>

\* one iteration of "for line in lines"
ExtractNextLine ==
    /\ line_no >= 0
    /\ line_no < Len(init_output)
    /\ LET acc == ExtractLine(init_output[line_no + 1],
                              [cp |-> control_plane_join_cmd,
                               worker |-> worker_join_cmd])
       IN /\ control_plane_join_cmd' = acc.cp
          /\ worker_join_cmd' = acc.worker
    /\ line_no' = line_no + 1
    /\ UNCHANGED <<topo, pipeline, inventory, init_output, remover, adder, added>>

ExtractNext == ExtractBegin \/ ExtractNextLine

SpecExtract == ExtractInit /\ [][ExtractNext]_vars

(***************************************************************************)
(* KubernetesBootstrap.__init__ resolving the topology of an inventory.    *)
(***************************************************************************)
\* KubernetesBootstrap(inventory_file) is called on an inventory file
TopologyInit ==
    \E rows \in Inventories :
        /\ inventory = rows
        /\ TopologyUnset
        /\ pc = "ctor_nodes"
        /\ PipelineQuiet
        /\ control_plane_join_cmd = Absent
        /\ worker_join_cmd = Absent
        /\ OtherIdle

TopologyFrame ==
    UNCHANGED <<creds, step, started, stepResult, runResult, pool, cpIdx, cmds,
                other>>

\* self.nodes = self.inventory.get_all_nodes()
CtorAllNodes ==
    /\ pc = "ctor_nodes"
    /\ nodes' = get_all_nodes(parse_file(inventory))
    /\ pc' = "ctor_control_plane"
    /\ UNCHANGED <<control_plane_nodes, worker_nodes>>
    /\ TopologyFrame

\* self.control_plane_nodes = self.inventory.get_control_plane_nodes(3)
CtorControlPlane ==
    /\ pc = "ctor_control_plane"
    /\ control_plane_nodes' =
          get_control_plane_nodes(parse_file(inventory), control_plane_count)
    /\ pc' = "ctor_workers"
    /\ UNCHANGED <<nodes, worker_nodes>>
    /\ TopologyFrame

\* self.worker_nodes = self.inventory.get_worker_nodes(3)
CtorWorkers ==
    /\ pc = "ctor_workers"
    /\ worker_nodes' = get_worker_nodes(parse_file(inventory), control_plane_count)
    /\ pc' = "ctor_done"
    /\ UNCHANGED <<nodes, control_plane_nodes>>
    /\ TopologyFrame

TopologyNext == CtorAllNodes \/ CtorControlPlane \/ CtorWorkers

SpecTopology == TopologyInit /\ [][TopologyNext]_vars

(***************************************************************************)
(* main of bootstrap_cluster.py: constructor, dry run, bootstrap_cluster   *)
(* with the steps of Spec, exit status.                                    *)
(***************************************************************************)
\* default_config of _load_cluster_config (the keys the model reads)
default_config ==
    [kubernetes_version |-> "1.28.0", pod_network_cidr |-> "10.244.0.0/16",
     timezone |-> "UTC"]

\* what --config can name: nothing or a file that does not exist, an empty
\* YAML document, a mapping that sets kubernetes_version, one that does not
ConfigFiles == {"absent", "null", "version", "timezone"}

\* _load_cluster_config: default_config.update(user_config);
\* update(None) raises TypeError
load_cluster_config(config_file) ==
    CASE config_file = "absent" -> [raised |-> "none", config |-> default_config]
      [] config_file = "null" -> [raised |-> "TypeError", config |-> <<>>]
      [] config_file = "version" ->
            [raised |-> "none",
             config |-> [default_config EXCEPT !.kubernetes_version = "1.29.0"]]
      [] config_file = "timezone" ->
            [raised |-> "none",
             config |-> [default_config EXCEPT !.timezone = "CET"]]

\* main has parsed its command line: a dry run over an inventory of up to
\* MaxNodes hosts, a bootstrap over one of up to MaxHosts hosts
MainInit ==
    \E n \in 0..MaxNodes : \E d \in BOOLEAN :
    \E f \in {"ok", "missing"} : \E c \in ConfigFiles :
        /\ ~d => n <= MaxHosts
        /\ args = [dry_run |-> d, inventory_file |-> f, config |-> c]
        /\ inventory = [i \in 1..n |-> "absent"]
        /\ cluster_config = <<>>
        /\ stdout = <<>>
        /\ stderr = <<>>
        /\ exit_code = PyNone
        /\ pc = "main"
        /\ TopologyUnset
        /\ step = 0
        /\ started = <<>>
        /\ stepResult = [s \in Steps |-> "notrun"]
        /\ runResult = "none"
        /\ fut = [s \in ParallelSteps |-> <<>>]
        /\ collected = [s \in ParallelSteps |-> {}]
        /\ results = [s \in ParallelSteps |-> <<>>]
        /\ cpIdx = 0
        /\ cmds = [h \in 1..n |-> <<>>]
        /\ control_plane_join_cmd = Absent
        /\ worker_join_cmd = Absent
        /\ init_output = <<>>
        /\ line_no = -1
        /\ RemoverIdle
        /\ AdderIdle
        /\ ResolverIdle
        /\ ParserIdle
        /\ RemoteIdle

\* what main itself leaves alone outside bootstrap_cluster
MainFrame ==
    UNCHANGED <<topo, creds, step, started, stepResult, runResult, pool, cpIdx,
                cmds, file, remover, adder, count, parser, remote, args>>

\* bootstrap = KubernetesBootstrap(args.inventory_file, args.config): the
\* first parse raises FileNotFoundError when the inventory is missing
MainConstruct ==
    /\ pc = "main"
    /\ pc' = IF args.inventory_file = "missing" THEN "except" ELSE "ctor_nodes"
    /\ UNCHANGED <<cluster_config, stdout, stderr, exit_code>>
    /\ MainFrame

\* self.cluster_config = self._load_cluster_config()
MainLoadConfig ==
    /\ pc = "ctor_done"
    /\ IF load_cluster_config(args.config).raised # "none"
       THEN pc' = "except" /\ UNCHANGED cluster_config
       ELSE /\ cluster_config' = load_cluster_config(args.config).config
            /\ pc' = "constructed"
    /\ UNCHANGED <<stdout, stderr, exit_code>>
    /\ MainFrame

\* the four lines the dry run prints about the cluster
DryRunLines ==
    <<Count_line("Control plane nodes", Len(control_plane_nodes)),
      Count_line("Worker nodes", Len(worker_nodes)),
      Text_line("Kubernetes version", cluster_config.kubernetes_version),
      Text_line("Pod network CIDR", cluster_config.pod_network_cidr)>>

\* variant: the dry run prints its report and goes on to bootstrap_cluster
MainDryRunGoesOn ==
    /\ pc = "constructed"
    /\ args.dry_run
    /\ stdout' = stdout \o DryRunLines
    /\ pc' = "bootstrap"
    /\ UNCHANGED <<cluster_config, stderr, exit_code>>
    /\ MainFrame

\* if args.dry_run: print the four lines and return; the process ends with
\* status 0
MainDryRun ==
    /\ pc = "constructed"
    /\ args.dry_run
    /\ stdout' = stdout \o DryRunLines
    /\ pc' = "exited"
    /\ exit_code' = PyInt(0)
    /\ UNCHANGED <<cluster_config, stderr>>
    /\ MainFrame

\* success = bootstrap.bootstrap_cluster(): the call
MainBootstrap ==
    /\ pc = "constructed"
    /\ ~args.dry_run
    /\ pc' = "bootstrap"
    /\ UNCHANGED <<cluster_config, stdout, stderr, exit_code>>
    /\ MainFrame

\* variant: the exit status does not depend on what bootstrap_cluster returned
MainExitZero ==
    /\ pc = "done"
    /\ runResult \in {"success", "failure"}
    /\ exit_code' = PyInt(0)
    /\ pc' = "exited"
    /\ UNCHANGED <<cluster_config, stdout, stderr>>
    /\ MainFrame

\* sys.exit(0 if success else 1)
MainExit ==
    /\ pc = "done"
    /\ runResult \in {"success", "failure"}
    /\ exit_code' = PyInt(IF runResult = "success" THEN 0 ELSE 1)
    /\ pc' = "exited"
    /\ UNCHANGED <<cluster_config, stdout, stderr>>
    /\ MainFrame

\* except Exception as e: print(f"Error: {e}", file=sys.stderr);
\* sys.exit(1), for an exception of the constructor or of bootstrap_cluster
MainExcept ==
    /\ \/ pc = "except"
       \/ pc = "done" /\ runResult = "raised"
    /\ stderr' = Append(stderr, Text_line("Error", "exception"))
    /\ exit_code' = PyInt(1)
    /\ pc' = "exited"
    /\ UNCHANGED <<cluster_config, stdout>>
    /\ MainFrame

\* main, with bootstrap_cluster running its steps as in Spec
MainNext ==
    \/ MainConstruct
    \/ CtorAllNodes
    \/ CtorControlPlane
    \/ CtorWorkers
    \/ MainLoadConfig
    \/ MainDryRun
    \/ MainBootstrap
    \/ Next
    \/ MainExit
    \/ MainExcept

SpecMain == MainInit /\ [][MainNext]_vars

(***************************************************************************)
(* The three resolver operations called with one control-plane count.      *)
(***************************************************************************)
\* an InventoryParser over an inventory file, and a caller about to resolve
\* the topology with the control-plane count K
ResolverInit ==
    \E rows \in Inventories : \E K \in 0..MaxCount :
        /\ inventory = rows
        /\ count = K
        /\ TopologyUnset
        /\ pc = "resolve_all"
        /\ PipelineQuiet
        /\ control_plane_join_cmd = Absent
        /\ worker_join_cmd = Absent
        /\ init_output = <<>>
        /\ line_no = -1
        /\ RemoverIdle
        /\ AdderIdle
        /\ ParserIdle
        /\ MainIdle
        /\ RemoteIdle

ResolverFrame ==
    UNCHANGED <<creds, step, started, stepResult, runResult, pool, cpIdx, cmds,
                other>>

\* nodes = inventory.get_all_nodes(): the operation takes no count
ResolveAllNodes ==
    /\ pc = "resolve_all"
    /\ nodes' = get_all_nodes(parse_file(inventory))
    /\ pc' = "resolve_control_plane"
    /\ UNCHANGED <<control_plane_nodes, worker_nodes>>
    /\ ResolverFrame

\* inventory.get_control_plane_nodes(K)
ResolveControlPlane ==
    /\ pc = "resolve_control_plane"
    /\ control_plane_nodes' = get_control_plane_nodes(parse_file(inventory), count)
    /\ pc' = "resolve_workers"
    /\ UNCHANGED <<nodes, worker_nodes>>
    /\ ResolverFrame

\* inventory.get_worker_nodes(K)
ResolveWorkers ==
    /\ pc = "resolve_workers"
    /\ worker_nodes' = get_worker_nodes(parse_file(inventory), count)
    /\ pc' = "resolve_done"
    /\ UNCHANGED <<nodes, control_plane_nodes>>
    /\ ResolverFrame

ResolverNext == ResolveAllNodes \/ ResolveControlPlane \/ ResolveWorkers

SpecResolve == ResolverInit /\ [][ResolverNext]_vars

(***************************************************************************)
(* parse: the records of the file are normalized in file order             *)
(* (_parse_csv, _parse_yaml, _parse_ini).                                  *)
(***************************************************************************)
\* parse has read the records of the file; hosts = []
ParserInit ==
    \E f \in RawFiles :
        /\ raw = f
        /\ parse_pc = "records"
        /\ hosts = <<>>
        /\ parse_exc = "none"
        /\ inventory = <<>>
        /\ TopologyUnset
        /\ PipelineIdle
        /\ control_plane_join_cmd = Absent
        /\ worker_join_cmd = Absent
        /\ ExtractIdle
        /\ RemoverIdle
        /\ AdderIdle
        /\ ResolverIdle
        /\ MainIdle
        /\ RemoteIdle

ParserFrame ==
    UNCHANGED <<topo, creds, pipeline, file, remover, adder, count, cli, remote,
                raw>>

\* hosts.append(self._normalize_host(row)) for the next record; the
\* ValueError of _normalize_host leaves the loop and parse
ParseRecord ==
    /\ parse_pc = "records"
    /\ Len(hosts) < Len(raw)
    /\ LET r == Normalize(raw[Len(hosts) + 1])
       IN IF r.raised # "none"
          THEN /\ parse_pc' = "raised"
               /\ parse_exc' = r.raised
               /\ UNCHANGED hosts
          ELSE /\ hosts' = Append(hosts, r.host)
               /\ UNCHANGED <<parse_pc, parse_exc>>
    /\ ParserFrame

\* the loop is exhausted: return hosts
ParseReturn ==
    /\ parse_pc = "records"
    /\ Len(hosts) = Len(raw)
    /\ parse_pc' = "returned"
    /\ UNCHANGED <<hosts, parse_exc>>
    /\ ParserFrame

ParserNext == ParseRecord \/ ParseReturn

SpecParse == ParserInit /\ [][ParserNext]_vars

(***************************************************************************)
(* run_ssh_command and copy_file_to_host, one remote call at a time, under *)
(* the step functions that call them.                                      *)
(***************************************************************************)
\* a remote command handed to run_ssh_command with a timeout in seconds
Ssh(c, t) == [via |-> "ssh", cmd |-> c, timeout |-> t]

\* a file handed to copy_file_to_host: subprocess.run gets no timeout
Scp(c) == [via |-> "scp", cmd |-> c, timeout |-> 0]

\* variant of StepCalls: the preparation script is run before it is made
\* executable
StepCallsRunFirst(fn) ==
    <<Scp("prepare_node.sh"), Ssh("run prepare_node.sh", 600), Ssh("chmod", 600)>>

\* the remote calls a step function makes when every call succeeds, in
\* order: each function goes on to its next call only after the one before
\* succeeded and returns True after the last (join_control_plane_nodes:
\* for a control plane of two nodes)
StepCalls(fn) ==
    CASE fn = "prepare_node" ->
            <<Scp("prepare_node.sh"), Ssh("chmod", 600),
              Ssh("run prepare_node.sh", 600)>>
      [] fn = "prepare_new_node" ->
            <<Scp("prepare_node.sh"), Ssh("chmod", 600),
              Ssh("run prepare_node.sh", 600)>>
      [] fn = "initialize_control_plane" ->
            <<Scp("kubeadm-config.yaml"), Ssh("kubeadm init", 900)>>
      [] fn = "join_control_plane_nodes" -> <<Ssh("join", 600)>>
      [] fn = "_join_worker_node" -> <<Ssh("join", 600)>>
      [] fn = "setup_networking" -> <<Ssh("apply flannel", 300)>>
      [] fn = "setup_storage" ->
            <<Ssh("apply storage", 300), Ssh("patch storageclass", 300)>>
      [] fn = "verify_cluster" -> <<Ssh("get nodes", 300), Ssh("get pods", 300)>>

StepFunctions ==
    {"prepare_node", "prepare_new_node", "initialize_control_plane",
     "join_control_plane_nodes", "_join_worker_node", "setup_networking",
     "setup_storage", "verify_cluster"}

\* what subprocess.run can do: raise before a child runs (the program is
\* missing, ...), or start a child that exits with a code or never ends
SpawnErrors == {"FileNotFoundError: ssh", "PermissionError"}
ChildFates == {"exit 0", "exit 1", "exit 255", "hangs"}

ExitCode(fate) ==
    CASE fate = "exit 0" -> 0
      [] fate = "exit 1" -> 1
      [] fate = "exit 255" -> 255

\* a Python tuple
PyTuple(t) == [type |-> "tuple", items |-> t]

\* an exception leaving a function
PyRaise(e) == [type |-> "raise", exc |-> e]

\* variant: only the timeout is caught
run_ssh_commandTimeoutOnly(ev) ==
    CASE ev.kind = "completed" -> PyTuple(<<ev.rc, ev.cmd, "">>)
      [] ev.kind = "TimeoutExpired" -> PyTuple(<<-1, "", "Command timed out">>)
      [] ev.kind = "Exception" -> PyRaise(ev.msg)

\* run_ssh_command: what it hands to its caller when subprocess.run
\* completed, raised TimeoutExpired or raised another exception
run_ssh_command(ev) ==
    CASE ev.kind = "completed" -> PyTuple(<<ev.rc, ev.cmd, "">>)
      [] ev.kind = "TimeoutExpired" -> PyTuple(<<-1, "", "Command timed out">>)
      [] ev.kind = "Exception" -> PyTuple(<<-1, "", ev.msg>>)

\* copy_file_to_host: returncode == 0, False on an exception
copy_file_to_host(ev) ==
    CASE ev.kind = "completed" -> PyBool(ev.rc = 0)
      [] ev.kind = "Exception" -> PyBool(FALSE)

\* the capability a call goes through
Capability(call, ev) ==
    IF call.via = "ssh" THEN run_ssh_command(ev) ELSE copy_file_to_host(ev)

\* variant: only the exit code -1 counts as a failure
CallFailedOnlyMinusOne(call, ret) ==
    IF call.via = "ssh" THEN ret.items[1] = -1 ELSE ret.val = 0

\* the test every call site makes on what the capability returned:
\* "if returncode != 0" and "if not self.copy_file_to_host(...)"
CallFailed(call, ret) ==
    IF call.via = "ssh" THEN ret.items[1] # 0 ELSE ret.val = 0

\* a step function is about to make its first remote call
RemoteInit ==
    \E fn \in StepFunctions :
        /\ rx_fn = fn
        /\ rx_i = 1
        /\ rx_pc = "call"
        /\ rx_proc = "none"
        /\ rx_ret = PyNone
        /\ rx_log = <<>>
        /\ rx_res = PyNone
        /\ inventory = <<>>
        /\ TopologyUnset
        /\ PipelineIdle
        /\ control_plane_join_cmd = Absent
        /\ worker_join_cmd = Absent
        /\ ExtractIdle
        /\ RemoverIdle
        /\ AdderIdle
        /\ ResolverIdle
        /\ ParserIdle
        /\ MainIdle

RemoteFrame ==
    UNCHANGED <<topo, creds, pipeline, file, remover, adder, count, parser, cli,
                rx_fn>>

rx_call == StepCalls(rx_fn)[rx_i]

\* the capability hands ret to the step function, or its exception leaves
\* the step function
RemoteReturn(ret) ==
    /\ rx_ret' = ret
    /\ rx_log' = [rx_log EXCEPT ![Len(rx_log)].ret = ret]
    /\ rx_proc' = "none"
    /\ rx_pc' = IF ret.type = "raise" THEN "raised" ELSE "returned"

\* the step function calls the capability, which calls subprocess.run: the
\* child is started
RemoteSpawn ==
    /\ rx_pc = "call"
    /\ rx_log' = Append(rx_log, [cmd |-> rx_call.cmd, ret |-> PyNone])
    /\ \E fate \in ChildFates : rx_proc' = fate
    /\ rx_pc' = "running"
    /\ UNCHANGED <<rx_i, rx_ret, rx_res>>
    /\ RemoteFrame

\* the step function calls the capability and subprocess.run raises
\* without a child
RemoteSpawnFails ==
    /\ rx_pc = "call"
    /\ \E e \in SpawnErrors :
          LET ret == Capability(rx_call, [kind |-> "Exception", msg |-> e])
          IN /\ rx_ret' = ret
             /\ rx_log' = Append(rx_log, [cmd |-> rx_call.cmd, ret |-> ret])
             /\ rx_pc' = IF ret.type = "raise" THEN "raised" ELSE "returned"
    /\ UNCHANGED <<rx_i, rx_proc, rx_res>>
    /\ RemoteFrame

\* the child exits and subprocess.run returns its CompletedProcess
RemoteExits ==
    /\ rx_pc = "running"
    /\ rx_proc # "hangs"
    /\ RemoteReturn(Capability(rx_call, [kind |-> "completed",
                                          rc |-> ExitCode(rx_proc),
                                          cmd |-> rx_call.cmd]))
    /\ UNCHANGED <<rx_i, rx_res>>
    /\ RemoteFrame

\* the timeout given to subprocess.run expires before the child has ended:
\* the child is killed and TimeoutExpired is raised
RemoteTimesOut ==
    /\ rx_pc = "running"
    /\ rx_call.timeout > 0
    /\ RemoteReturn(Capability(rx_call, [kind |-> "TimeoutExpired"]))
    /\ UNCHANGED <<rx_i, rx_res>>
    /\ RemoteFrame

\* the step function tests what the capability returned: return False on
\* a failure, else go on to the next call or return True
RemoteChecked ==
    /\ rx_pc = "returned"
    /\ IF CallFailed(rx_call, rx_ret)
       THEN /\ rx_res' = PyBool(FALSE)
            /\ rx_pc' = "done"
            /\ UNCHANGED rx_i
       ELSE IF rx_i < Len(StepCalls(rx_fn))
            THEN /\ rx_i' = rx_i + 1
                 /\ rx_pc' = "call"
                 /\ UNCHANGED rx_res
            ELSE /\ rx_res' = PyBool(TRUE)
                 /\ rx_pc' = "done"
                 /\ UNCHANGED rx_i
    /\ UNCHANGED <<rx_proc, rx_ret, rx_log>>
    /\ RemoteFrame

RemoteNext ==
    \/ RemoteSpawn
    \/ RemoteSpawnFails
    \/ RemoteExits
    \/ RemoteTimesOut
    \/ RemoteChecked

SpecRemote == RemoteInit /\ [][RemoteNext]_vars

\* a child that can exit does exit, an armed timeout does expire, and
\* the interpreter goes on running the step function
SpecRemoteLive == SpecRemote /\ WF_vars(RemoteNext)

(***************************************************************************)
(* NodeRemover (scripts/remove_node.py).                                   *)
(***************************************************************************)
\* hosts of an inventory: the hostname of the third is the address of the
\* first
MemberHosts ==
    { [hostname |-> "n1", ip_address |-> "ip1"],
      [hostname |-> "n2", ip_address |-> "ip2"],
      [hostname |-> "ip1", ip_address |-> "ip3"] }

MemberInventories == UNION { [1..k -> MemberHosts] : k \in 1..MaxMembers }

\* what the operator can pass as master_node, --node or --status
Identifiers == {"n1", "n2", "ip1", "ip2", "zz"}

\* an option that was not given (None): main only tests its truth
NotGiven == ""

Matches(ns, id) ==
    {i \in 1..Len(ns) : ns[i].hostname = id \/ ns[i].ip_address = id}

\* variant: the loop has no break, the last match stays
LastMatch(ns, id) ==
    IF Matches(ns, id) = {} THEN 0
    ELSE CHOOSE i \in Matches(ns, id) : \A j \in Matches(ns, id) : i >= j

\* "for node in self.nodes: if hostname == id or ip_address == id: break":
\* the position of the first match, 0 when there is none
FirstMatch(ns, id) ==
    IF Matches(ns, id) = {} THEN 0
    ELSE CHOOSE i \in Matches(ns, id) : \A j \in Matches(ns, id) : i <= j

\* what the cluster can answer to "kubectl get nodes <id> -o json": a
\* non-zero exit, output that is not JSON, an empty object, a node whose
\* spec has no unschedulable value, a node with spec.unschedulable true,
\* a node whose spec spells out unschedulable false
NodeAnswers == {"fail", "badjson", "empty", "plain", "cordoned", "uncordoned"}

\* get_node_info: None on a non-zero exit or a JSONDecodeError
get_node_info(answer) ==
    IF answer \in {"fail", "badjson"} THEN "None" ELSE answer

\* "if not node_info"
Falsy(info) == info \in {"None", "empty"}

\* variant: local ephemeral-volume data is deleted only on a forced drain
DrainFlagsForceOnly(info, force) ==
    (IF info = "plain" THEN {"--ignore-daemonsets"} ELSE {})
    \cup (IF force THEN {"--force", "--grace-period=0",
                         "--delete-emptydir-data"} ELSE {})

\* the kubectl drain options drain_node builds:
\* "if node_info.get('spec', {}).get('unschedulable') is None", "if force",
\* then the unconditional " --delete-emptydir-data"
DrainFlags(info, force) ==
    (IF info = "plain" THEN {"--ignore-daemonsets"} ELSE {})
    \cup (IF force THEN {"--force", "--grace-period=0"} ELSE {})
    \cup {"--delete-emptydir-data"}

RmCall(h, c, fl, o) == [host |-> h, cmd |-> c, flags |-> fl, rc |-> o]

\* variant: the result of drain_node is not looked at
AfterDrainIgnored(ok, force) == "delete"

\* "if not self.drain_node(...): if not force: return False"
AfterDrain(ok, force) ==
    IF ~ok /\ ~force THEN "return_false" ELSE "delete"

\* variant: a failed delete goes on to the reset phase
AfterDeleteContinues(ok, reset) ==
    IF reset THEN "reset" ELSE IF ok THEN "return_true" ELSE "return_false"

\* "if not self.delete_node(...): return False", then "if reset:"
AfterDelete(ok, reset) ==
    IF ~ok THEN "return_false"
    ELSE IF reset THEN "reset" ELSE "return_true"

\* variant: a failed reset fails remove_node
AfterResetEscalates(ok) == IF ok THEN "return_true" ELSE "return_false"

\* "if not self.reset_node(node_info): print(warning)", then "return True"
AfterReset(ok) == "return_true"

\* the master and the node to remove, as found in the inventory
rm_master_info == rm_nodes[rm_master]
rm_node_info == rm_nodes[FirstMatch(rm_nodes, rm_args.node_identifier)]

\* the command lines of remove_node.py: --list, --status of a node, no
\* option at all, --node with or without --force / --no-reset, and --list
\* or --status together with --node
RemoverArgs ==
    { a \in [master_node : Identifiers,
             list : BOOLEAN,
             status : {NotGiven, "n2"},
             node_identifier : Identifiers \cup {NotGiven},
             force : BOOLEAN,
             reset : BOOLEAN] :
        /\ (a.list \/ a.status # NotGiven) =>
              a.node_identifier \in {NotGiven, "n2"} /\ ~a.force /\ a.reset
        /\ (a.list /\ a.status # NotGiven) => a.node_identifier = NotGiven
        /\ a.node_identifier = NotGiven => ~a.force /\ a.reset }

\* where main goes once the NodeRemover is constructed: "if args.list",
\* "if args.status", "if not args.node", else remove_node
RemoverEntryPc(a) ==
    IF a.list THEN "list"
    ELSE IF a.status # NotGiven THEN "status"
    ELSE IF a.node_identifier = NotGiven THEN "usage"
    ELSE "remove"

\* remove_node.py is started on an inventory
RemoverInit ==
    \E ns \in MemberInventories : \E a \in RemoverArgs :
        /\ rm_nodes = ns
        /\ rm_master = 0
        /\ rm_args = a
        /\ rm_pc = "new"
        /\ rm_info = "unset"
        /\ rm_drained = "notrun"
        /\ rm_log = <<>>
        /\ rm_ret = "none"
        /\ rm_exit = PyNone
        /\ inventory = <<>>
        /\ control_plane_join_cmd = Absent
        /\ worker_join_cmd = Absent
        /\ ExtractIdle
        /\ TopologyUnset
        /\ PipelineIdle
        /\ AdderIdle
        /\ AddedIdle

\* what remove_node.py leaves alone
RemoverFrame ==
    UNCHANGED <<topo, creds, pipeline, file, adder, added, rm_nodes, rm_args,
                rm_exit>>

\* remove_node returns v
RemoveReturn(v) ==
    /\ rm_ret' = v
    /\ rm_pc' = "done"

\* move on to the phase named by one of the After operators
RemoveGoto(next) ==
    CASE next = "return_false" -> RemoveReturn("False")
      [] next = "return_true" -> RemoveReturn("True")
      [] OTHER -> rm_pc' = next /\ UNCHANGED rm_ret

\* NodeRemover.__init__: find the master, ValueError when it is not listed;
\* main then goes on to what the command line asks for
NodeRemoverNew ==
    /\ rm_pc = "new"
    /\ rm_master' = FirstMatch(rm_nodes, rm_args.master_node)
    /\ rm_pc' = IF rm_master' = 0 THEN "error" ELSE RemoverEntryPc(rm_args)
    /\ UNCHANGED <<rm_info, rm_drained, rm_log, rm_ret>>
    /\ RemoverFrame

\* remove_node: find the node in the inventory, return False without it
RemoveLookup ==
    /\ rm_pc = "remove"
    /\ IF FirstMatch(rm_nodes, rm_args.node_identifier) = 0
       THEN RemoveReturn("False")
       ELSE rm_pc' = "get_node_info" /\ UNCHANGED rm_ret
    /\ UNCHANGED <<rm_master, rm_info, rm_drained, rm_log>>
    /\ RemoverFrame

\* drain_node returns ok to remove_node
DrainReturns(ok) ==
    /\ rm_drained' = IF ok THEN "True" ELSE "False"
    /\ RemoveGoto(AfterDrain(ok, rm_args.force))

\* drain_node: node_info = self.get_node_info(id); return False without it
DrainGetNodeInfo ==
    /\ rm_pc = "get_node_info"
    /\ \E answer \in NodeAnswers :
          /\ rm_log' = Append(rm_log,
                RmCall(rm_master_info.ip_address, "get node", {},
                       IF answer = "fail" THEN "fail" ELSE "ok"))
          /\ rm_info' = get_node_info(answer)
          /\ IF Falsy(rm_info')
             THEN DrainReturns(FALSE)
             ELSE rm_pc' = "drain" /\ UNCHANGED <<rm_drained, rm_ret>>
    /\ UNCHANGED rm_master
    /\ RemoverFrame

\* drain_node: kubectl drain on the master (timeout 600), True on exit 0
DrainNode ==
    /\ rm_pc = "drain"
    /\ \E o \in {"ok", "fail"} :
          /\ rm_log' = Append(rm_log,
                RmCall(rm_master_info.ip_address, "drain",
                       DrainFlags(rm_info, rm_args.force), o))
          /\ DrainReturns(o = "ok")
    /\ UNCHANGED <<rm_master, rm_info>>
    /\ RemoverFrame

\* delete_node: kubectl delete node on the master, True on exit 0
DeleteNode ==
    /\ rm_pc = "delete"
    /\ \E o \in {"ok", "fail"} :
          /\ rm_log' = Append(rm_log,
                RmCall(rm_master_info.ip_address, "delete", {}, o))
          /\ RemoveGoto(AfterDelete(o = "ok", rm_args.reset))
    /\ UNCHANGED <<rm_master, rm_info, rm_drained>>
    /\ RemoverFrame

\* reset_node: kubeadm reset --force on the node; False on a non-zero exit
ResetKubeadm ==
    /\ rm_pc = "reset"
    /\ \E o \in {"ok", "fail"} :
          /\ rm_log' = Append(rm_log,
                RmCall(rm_node_info.ip_address, "kubeadm reset", {"--force"}, o))
          /\ IF o = "ok"
             THEN rm_pc' = "cleanup_iptables" /\ UNCHANGED rm_ret
             ELSE RemoveGoto(AfterReset(FALSE))
    /\ UNCHANGED <<rm_master, rm_info, rm_drained>>
    /\ RemoverFrame

\* reset_node: one of the three cleanup commands, its exit code is ignored
ResetCleanup(at, c, next) ==
    /\ rm_pc = at
    /\ \E o \in {"ok", "fail"} :
          rm_log' = Append(rm_log, RmCall(rm_node_info.ip_address, c, {}, o))
    /\ IF next = "return"
       THEN RemoveGoto(AfterReset(TRUE))
       ELSE rm_pc' = next /\ UNCHANGED rm_ret
    /\ UNCHANGED <<rm_master, rm_info, rm_drained>>
    /\ RemoverFrame

\* list_nodes / get_node_status: one kubectl command on the master, then
\* main returns
MasterQuery(at, c) ==
    /\ rm_pc = at
    /\ \E o \in {"ok", "fail"} :
          rm_log' = Append(rm_log, RmCall(rm_master_info.ip_address, c, {}, o))
    /\ rm_pc' = "returned"
    /\ UNCHANGED <<rm_master, rm_info, rm_drained, rm_ret>>
    /\ RemoverFrame

ListNodes == MasterQuery("list", "list nodes")
GetNodeStatus == MasterQuery("status", "describe node")

\* the exit status main ends with: sys.exit(0 if success else 1) after
\* remove_node, sys.exit(1) without --node and in the exception handler,
\* 0 when main returns after --list / --status
RemoverExitCode(at, ret) ==
    CASE at = "done" -> IF ret = "True" THEN 0 ELSE 1
      [] at = "returned" -> 0
      [] OTHER -> 1

\* remove_node.py ends
RemoverExit ==
    /\ rm_pc \in {"done", "returned", "usage", "error"}
    /\ rm_exit' = PyInt(RemoverExitCode(rm_pc, rm_ret))
    /\ rm_pc' = "exited"
    /\ UNCHANGED <<topo, creds, pipeline, file, adder, added, rm_nodes, rm_args,
                   rm_master, rm_info, rm_drained, rm_log, rm_ret>>

CleanupIptables == ResetCleanup("cleanup_iptables", "iptables", "cleanup_network")
CleanupNetwork == ResetCleanup("cleanup_network", "ip link delete", "cleanup_dirs")
CleanupDirs == ResetCleanup("cleanup_dirs", "rm -rf", "return")

RemoverNext ==
    \/ NodeRemoverNew
    \/ RemoveLookup
    \/ DrainGetNodeInfo
    \/ DrainNode
    \/ DeleteNode
    \/ ResetKubeadm
    \/ CleanupIptables
    \/ CleanupNetwork
    \/ CleanupDirs
    \/ ListNodes
    \/ GetNodeStatus
    \/ RemoverExit

SpecRemove == RemoverInit /\ [][RemoverNext]_vars

(***************************************************************************)
(* NodeAdder (scripts/add_node.py).  Host 0 is the master, host i the i-th *)
(* node of new_nodes, host -1 the machine add_node.py runs on.             *)
(***************************************************************************)
NodeTypes == {"worker", "control-plane"}

\* the master prints a new join command every time it is asked for one
TokenNames == <<"t1", "t2", "t3", "t4", "t5", "t6">>

\* what the master can answer to the command that prints a join command,
\* when it has generated k of them before
FetchAnswers(k) ==
    { [rc |-> "fail", stdout |-> <<>>, fresh |-> 0],
      [rc |-> "ok", stdout |-> <<" ">>, fresh |-> 0],
      [rc |-> "ok", stdout |-> <<"kubeadm join", TokenNames[k + 1], " ">>,
       fresh |-> 1] }

\* get_join_token / get_control_plane_join_command: None on a non-zero
\* exit, else stdout.strip()
get_join_token(ans) ==
    IF ans.rc # "ok" THEN None ELSE Str(strip(ans.stdout))

\* the command get_join_token / get_control_plane_join_command runs
FetchCommand(node_type) ==
    IF node_type = "control-plane" THEN "upload-certs" ELSE "token create"

\* the truth value of join_command ("if not join_command")
Truthy(cmd) == cmd.st = "str" /\ cmd.val # <<>>

\* what the master can answer to the Ready query of verify_node_joined
ReadyAnswers ==
    { [rc |-> "fail", stdout |-> <<>>],
      [rc |-> "ok", stdout |-> <<"True", " ">>],
      [rc |-> "ok", stdout |-> <<"False">>] }

\* "if returncode != 0 or stdout.strip() != 'True': return False"
Ready(ans) == ans.rc = "ok" /\ strip(ans.stdout) = <<"True">>

AdCall(i, h, c, a, o, out) ==
    [node |-> i, host |-> h, cmd |-> c, arg |-> a, rc |-> o, out |-> out]

\* prepare_new_node: the remote calls it makes, in order (the copy of the
\* script, then the two commands of its list), and where each is made
PrepareNewNodeCalls ==
    << [at |-> "prepare", cmd |-> "copy"],
       [at |-> "prepare_chmod", cmd |-> "chmod"],
       [at |-> "prepare_run", cmd |-> "run"] >>

\* variant: the result of a stage is not looked at
AfterStageIgnored(ok, next) == next

\* add_node: "if not <stage>: return False", else on to the next stage
AfterStage(ok, next) == IF ok THEN next ELSE "return_false"

\* "if self.add_node(...): success_count += 1"
Count(c, ok) == IF ok THEN c + 1 ELSE c

\* variant: the loop stops at the first node that fails
NextNodeStopAtFailure(i, n, ok) == IF ok THEN i + 1 ELSE n + 1

\* "for node_info in new_nodes": the node after node i
NextNode(i, n, ok) == i + 1

\* "return success_count == len(new_nodes)"
BatchResult(c, n) == PyBool(c = n)

\* where a constructed NodeAdder starts: add_node or the batch
AdderEntryPc(entry) == IF entry = "add_node" THEN "prepare" ELSE "batch_fetch"

\* add_node.py has constructed its NodeAdder on an inventory that lists the
\* master: add_node on one node, or add_nodes_from_inventory on a list of
\* nodes
AdderInit ==
    \E entry \in {"add_node", "add_nodes_from_inventory"} :
    \E n \in 0..MaxBatch : \E t \in NodeTypes :
        /\ entry = "add_node" => n = 1
        /\ ad_nodes = <<[hostname |-> "n1", ip_address |-> "ip1"]>>
        /\ ad_master = FirstMatch(ad_nodes, "n1")
        /\ ad_args = [master_node |-> "n1", entry |-> entry, new_nodes |-> n,
                      node_type |-> t]
        /\ ad_pc = AdderEntryPc(entry)
        /\ ad_idx = IF entry = "add_node" THEN 1 ELSE 0
        /\ ad_batch_cmd = Absent
        /\ ad_join_cmd = Absent
        /\ ad_log = <<>>
        /\ ad_rets = <<>>
        /\ ad_count = 0
        /\ ad_ret = PyNone
        /\ ad_tokens = 0
        /\ inventory = <<>>
        /\ control_plane_join_cmd = Absent
        /\ worker_join_cmd = Absent
        /\ ExtractIdle
        /\ TopologyUnset
        /\ PipelineIdle
        /\ RemoverIdle
        /\ AddedIdle

\* what add_node.py leaves alone
AdderFrame ==
    UNCHANGED <<topo, creds, pipeline, file, remover, added, ad_nodes,
                ad_master, ad_args>>

\* add_node returns ok; inside add_nodes_from_inventory the loop counts it
\* and goes on to the next node or returns
AddReturn(ok) ==
    /\ ad_rets' = Append(ad_rets, IF ok THEN "True" ELSE "False")
    /\ ad_join_cmd' = Absent
    /\ IF ad_args.entry = "add_node"
       THEN /\ ad_pc' = "done"
            /\ UNCHANGED <<ad_idx, ad_count, ad_ret>>
       ELSE /\ ad_count' = Count(ad_count, ok)
            /\ ad_idx' = NextNode(ad_idx, ad_args.new_nodes, ok)
            /\ IF ad_idx' <= ad_args.new_nodes
               THEN ad_pc' = "prepare" /\ UNCHANGED ad_ret
               ELSE /\ ad_pc' = "done"
                    /\ ad_ret' = BatchResult(ad_count', ad_args.new_nodes)

\* move on to the stage named by AfterStage, join_command being jc
AddGoto(next, jc) ==
    CASE next = "return_false" -> AddReturn(FALSE)
      [] next = "return_true" -> AddReturn(TRUE)
      [] OTHER -> /\ ad_pc' = next
                  /\ ad_join_cmd' = jc
                  /\ UNCHANGED <<ad_idx, ad_rets, ad_count, ad_ret>>

\* add_nodes_from_inventory: "Get join command once", return False
\* without one
BatchFetch ==
    /\ ad_pc = "batch_fetch"
    /\ \E ans \in FetchAnswers(ad_tokens) :
          /\ ad_log' = Append(ad_log,
                AdCall(0, 0, FetchCommand(ad_args.node_type), Absent, ans.rc,
                       get_join_token(ans)))
          /\ ad_tokens' = ad_tokens + ans.fresh
          /\ ad_batch_cmd' = get_join_token(ans)
          /\ IF ~Truthy(ad_batch_cmd')
             THEN /\ ad_ret' = PyBool(FALSE)
                  /\ ad_pc' = "done"
                  /\ UNCHANGED ad_idx
             ELSE IF ad_args.new_nodes = 0
                  THEN /\ ad_ret' = BatchResult(ad_count, ad_args.new_nodes)
                       /\ ad_pc' = "done"
                       /\ UNCHANGED ad_idx
                  ELSE /\ ad_idx' = 1
                       /\ ad_pc' = "prepare"
                       /\ UNCHANGED ad_ret
    /\ UNCHANGED <<ad_join_cmd, ad_rets, ad_count>>
    /\ AdderFrame

\* add_node step 1: prepare_new_node(node_info), one remote call at a time;
\* call k failing makes prepare_new_node return False, the last one passing
\* makes it return True
AddPrepareCall(k) ==
    /\ ad_pc = PrepareNewNodeCalls[k].at
    /\ \E o \in {"ok", "fail"} :
          /\ ad_log' = Append(ad_log, AdCall(ad_idx, ad_idx,
                                  PrepareNewNodeCalls[k].cmd, Absent, o, Absent))
          /\ IF o = "ok" /\ k < Len(PrepareNewNodeCalls)
             THEN AddGoto(PrepareNewNodeCalls[k + 1].at, ad_join_cmd)
             ELSE AddGoto(AfterStage(o = "ok", "fetch"), ad_join_cmd)
    /\ UNCHANGED <<ad_batch_cmd, ad_tokens>>
    /\ AdderFrame

AddPrepareCopy == AddPrepareCall(1)

AddPrepareChmod == AddPrepareCall(2)

AddPrepareRun == AddPrepareCall(3)

\* add_node step 2: get the join command from the master, by node type
AddFetch ==
    /\ ad_pc = "fetch"
    /\ \E ans \in FetchAnswers(ad_tokens) :
          /\ ad_log' = Append(ad_log,
                AdCall(ad_idx, 0, FetchCommand(ad_args.node_type), Absent,
                       ans.rc, get_join_token(ans)))
          /\ ad_tokens' = ad_tokens + ans.fresh
          /\ AddGoto(AfterStage(Truthy(get_join_token(ans)), "join"),
                     get_join_token(ans))
    /\ UNCHANGED ad_batch_cmd
    /\ AdderFrame

\* add_node step 3: join_worker_node / join_control_plane_node runs
\* join_command on the node (timeout 600)
AddJoin ==
    /\ ad_pc = "join"
    /\ \E o \in {"ok", "fail"} :
          /\ ad_log' = Append(ad_log,
                AdCall(ad_idx, ad_idx, "join", ad_join_cmd, o, Absent))
          /\ AddGoto(AfterStage(o = "ok", "settle"), ad_join_cmd)
    /\ UNCHANGED <<ad_batch_cmd, ad_tokens>>
    /\ AdderFrame

\* add_node step 4: time.sleep(30)
AddSettle ==
    /\ ad_pc = "settle"
    /\ ad_log' = Append(ad_log, AdCall(ad_idx, -1, "sleep", Absent, "ok", Absent))
    /\ AddGoto("verify_registered", ad_join_cmd)
    /\ UNCHANGED <<ad_batch_cmd, ad_tokens>>
    /\ AdderFrame

\* verify_node_joined: kubectl get nodes | grep <hostname> on the master
AddVerifyRegistered ==
    /\ ad_pc = "verify_registered"
    /\ \E o \in {"ok", "fail"} :
          /\ ad_log' = Append(ad_log,
                AdCall(ad_idx, 0, "get nodes", Absent, o, Absent))
          /\ AddGoto(AfterStage(o = "ok", "verify_ready"), ad_join_cmd)
    /\ UNCHANGED <<ad_batch_cmd, ad_tokens>>
    /\ AdderFrame

\* verify_node_joined: the Ready condition of the node must read "True"
AddVerifyReady ==
    /\ ad_pc = "verify_ready"
    /\ \E ans \in ReadyAnswers :
          /\ ad_log' = Append(ad_log,
                AdCall(ad_idx, 0, "ready", Absent, ans.rc, Str(strip(ans.stdout))))
          /\ AddGoto(AfterStage(Ready(ans), "return_true"), ad_join_cmd)
    /\ UNCHANGED <<ad_batch_cmd, ad_tokens>>
    /\ AdderFrame

AdderNext ==
    \/ BatchFetch
    \/ AddPrepareCopy
    \/ AddPrepareChmod
    \/ AddPrepareRun
    \/ AddFetch
    \/ AddJoin
    \/ AddSettle
    \/ AddVerifyRegistered
    \/ AddVerifyReady

SpecAdd == AdderInit /\ [][AdderNext]_vars

(***************************************************************************)
(* The two maintenance tools from their constructors on: remove_node.py as *)
(* in SpecRemove, add_node.py with NodeAdder.__init__ resolving the master *)
(* in the inventory before add_node or add_nodes_from_inventory runs.      *)
(***************************************************************************)
\* add_node.py is started on an inventory: main constructs the NodeAdder,
\* then calls add_node on one node or add_nodes_from_inventory on
\* adder.nodes
AdderStart ==
    \E ns \in MemberInventories : \E m \in Identifiers :
    \E entry \in {"add_node", "add_nodes_from_inventory"} :
    \E t \in NodeTypes :
        /\ ad_nodes = ns
        /\ ad_master = 0
        /\ ad_args = [master_node |-> m, entry |-> entry,
                      new_nodes |-> IF entry = "add_node" THEN 1 ELSE Len(ns),
                      node_type |-> t]
        /\ ad_pc = "new"
        /\ ad_idx = IF entry = "add_node" THEN 1 ELSE 0
        /\ ad_batch_cmd = Absent
        /\ ad_join_cmd = Absent
        /\ ad_log = <<>>
        /\ ad_rets = <<>>
        /\ ad_count = 0
        /\ ad_ret = PyNone
        /\ ad_tokens = 0
        /\ inventory = <<>>
        /\ control_plane_join_cmd = Absent
        /\ worker_join_cmd = Absent
        /\ ExtractIdle
        /\ TopologyUnset
        /\ PipelineIdle
        /\ RemoverIdle
        /\ AddedIdle

\* NodeAdder.__init__: find the master, ValueError when it is not listed
NodeAdderNew ==
    /\ ad_pc = "new"
    /\ ad_master' = FirstMatch(ad_nodes, ad_args.master_node)
    /\ ad_pc' = IF ad_master' = 0 THEN "error"
                ELSE AdderEntryPc(ad_args.entry)
    /\ UNCHANGED <<ad_nodes, ad_args, ad_idx, ad_batch_cmd, ad_join_cmd,
                   ad_log, ad_rets, ad_count, ad_ret, ad_tokens>>
    /\ UNCHANGED <<topo, creds, pipeline, file, remover, added>>

LookupInit == RemoverInit \/ AdderStart

LookupNext ==
    \/ NodeRemoverNew
    \/ RemoveLookup
    \/ DrainGetNodeInfo
    \/ DrainNode
    \/ DeleteNode
    \/ ResetKubeadm
    \/ CleanupIptables
    \/ CleanupNetwork
    \/ CleanupDirs
    \/ ListNodes
    \/ GetNodeStatus
    \/ RemoverExit
    \/ NodeAdderNew
    \/ BatchFetch
    \/ AddPrepareCopy
    \/ AddPrepareChmod
    \/ AddPrepareRun
    \/ AddFetch
    \/ AddJoin
    \/ AddSettle
    \/ AddVerifyRegistered
    \/ AddVerifyReady

SpecLookup == LookupInit /\ [][LookupNext]_vars

(***************************************************************************)
(* Properties.                                                             *)
(***************************************************************************)
\* the step function of step s has returned or raised
Finished(s) == stepResult[s] \in {"ok", "fail", "raised"}

\* positions of the calls of command c in the log of host h
CallsOf(h, c) == {k \in 1..Len(cmds[h]) : cmds[h][k].cmd = c}

HasCmd(h, c) == CallsOf(h, c) # {}

CountCmd(h, c) == Cardinality(CallsOf(h, c))

CountOf(r, b) == Cardinality({k \in 1..Len(r) : r[k] = b})

IsPrefix(a, b) == Len(a) <= Len(b) /\ SubSeq(b, 1, Len(a)) = a

C1_Order ==
    /\ \A k \in 1..Len(started) : started[k] = k
    /\ \A s \in Steps :
          stepResult[s] # "notrun" =>
             /\ s <= Len(started)
             /\ \A j \in 1..(s - 1) : stepResult[j] = "ok"
    /\ \A s \in Steps :
          stepResult[s] \in {"fail", "raised"} =>
             /\ \A j \in (s + 1)..7 : stepResult[j] = "notrun"
             /\ Len(started) = s

C1_NoRetry ==
    /\ \A s \in Steps : Finished(s) => stepResult'[s] = stepResult[s]
    /\ \A s \in Steps : stepResult[s] # "notrun" => stepResult'[s] # "notrun"
    /\ IsPrefix(started, started')
    /\ \A h \in DOMAIN cmds : IsPrefix(cmds[h], cmds'[h])

\* C1: the seven steps of bootstrap_cluster start in the fixed order, each at
\* most once, a step starts only when every earlier step has returned
\* success, no step starts after the first failure, and nothing done is
\* undone or retried (step outcomes are final, the log of remote calls of
\* every host only grows).
C1_StepsInOrderFailFast == []C1_Order /\ [][C1_NoRetry]_vars

\* a run that stopped at the fifth step after four successful steps
C1_Witness ==
    /\ pc = "done"
    /\ stepResult[5] = "fail"
    /\ started = <<1, 2, 3, 4, 5>>

\* C2: once a parallel step has returned, every node's operation was taken
\* up and ran to completion, also when another node's operation returned
\* failure or raised: the failure is recorded and the step does not raise.
C2_FaultIsolation ==
    \A s \in ParallelSteps :
       Finished(s) =>
          /\ stepResult[s] # "raised"
          /\ \A i \in DOMAIN fut[s] :
                /\ IsDone(fut[s][i])
                /\ fut[s][i] # "exc" => cmds[TasksOf(s)[i].hostname] # <<>>
          /\ \A i \in DOMAIN fut[s] : \A j \in DOMAIN fut[s] :
                (fut[s][i] \in {"false", "exc"} /\ j # i /\ Faults(fut[s]) = 1)
                   => fut[s][j] = "true"

\* prepare_all_nodes has returned, the first node's operation raised and
\* every other node was prepared
C2_Witness ==
    /\ Finished(1)
    /\ Len(nodes) >= 3
    /\ fut[1][1] = "exc"
    /\ \A j \in 2..Len(nodes) : fut[1][j] = "true"

\* C3: at every moment of a parallel step at most 5 per-node operations have
\* started and not finished.
C3_PoolBound ==
    \A s \in ParallelSteps :
       Cardinality({i \in DOMAIN fut[s] : fut[s][i] = "running"}) <= 5

\* five preparations in flight while a sixth node waits in the queue
C3_Witness ==
    /\ Cardinality({i \in DOMAIN fut[1] : fut[1][i] = "running"}) = 5
    /\ \E i \in DOMAIN fut[1] : fut[1][i] = "pending"

\* C4: a parallel step is a barrier: when the step after it has started, or
\* the run has ended, no operation the step dispatched is queued or in
\* flight; no remote call of the control-plane initialization is made
\* while a node's preparation is unfinished.
C4_Barrier ==
    /\ (stepResult[2] # "notrun" \/ pc = "done") =>
          \A i \in DOMAIN fut[1] : IsDone(fut[1][i])
    /\ (stepResult[5] # "notrun" \/ pc = "done") =>
          \A i \in DOMAIN fut[4] : IsDone(fut[4][i])
    /\ \A h \in DOMAIN cmds :
          (HasCmd(h, "scp_config") \/ HasCmd(h, "init")) =>
             /\ fut[1] # <<>>
             /\ \A i \in DOMAIN fut[1] : IsDone(fut[1][i])

\* kubeadm init was issued after more nodes than the pool has threads were
\* prepared
C4_Witness ==
    /\ Len(nodes) > 5
    /\ HasCmd(control_plane_nodes[1].hostname, "init")

\* C5: a parallel step returns success exactly when every node's operation
\* returned success, whatever the order of the results list; over an empty
\* node set it returns success.
C5_ResultIsAnd ==
    \A s \in ParallelSteps :
       stepResult[s] \in {"ok", "fail"} =>
          /\ (stepResult[s] = "ok") <=>
                (\A i \in DOMAIN fut[s] : fut[s][i] = "true")
          /\ Len(TasksOf(s)) = 0 => stepResult[s] = "ok"

\* the worker join returned failure with the failed result collected first
C5_Witness ==
    /\ stepResult[4] = "fail"
    /\ results[4] = <<FALSE, TRUE, TRUE>>

\* C6: when a parallel step over N nodes has returned, the results list has
\* exactly one outcome per node, as many false as operations failed or
\* raised and true for the rest, and no node's operation ran twice.
C6_OneOutcomePerNode ==
    \A s \in ParallelSteps :
       stepResult[s] \in {"ok", "fail"} =>
          LET n == Len(TasksOf(s))
              m == Cardinality({i \in DOMAIN fut[s] : fut[s][i] \in {"false", "exc"}})
          IN /\ Len(fut[s]) = n
             /\ Len(results[s]) = n
             /\ collected[s] = 1..n
             /\ CountOf(results[s], FALSE) = m
             /\ CountOf(results[s], TRUE) = n - m
             /\ \A i \in 1..n :
                   LET h == TasksOf(s)[i].hostname
                       c == IF s = 1 THEN "scp_prepare" ELSE "join"
                   IN CountCmd(h, c) = IF fut[s][i] = "exc" THEN 0 ELSE 1

\* prepare_all_nodes returned over six nodes of which one failed
C6_Witness ==
    /\ stepResult[1] = "fail"
    /\ Len(nodes) = 6
    /\ CountOf(results[1], FALSE) = 1
    /\ CountOf(results[1], TRUE) = 5

\* the run ended, exactly one worker join failed with a usable credential
\* and no other step reported a failure
C7_SingleWorkerLost ==
    /\ pc = "done"
    /\ stepResult[4] # "notrun"
    /\ worker_join_cmd.st = "str"
    /\ Cardinality({i \in DOMAIN fut[4] : fut[4][i] \in {"false", "exc"}}) = 1
    /\ \A s \in Steps \ {4} : stepResult[s] \in {"ok", "notrun"}

\* C7 as stated: losing one worker does not fail the run, which goes on to
\* networking, storage and verify and ends in success.
C7_Original == C7_SingleWorkerLost => runResult = "success"

\* C7 amended: when the join of a worker fails the other workers' joins
\* still complete, the worker-join step returns failure, the networking,
\* storage and verify steps are never started and the run ends in failure.
C7_WorkerLossFailsRun ==
    (Finished(4) /\ \E i \in DOMAIN fut[4] : fut[4][i] \in {"false", "exc"}) =>
       /\ stepResult[4] = "fail"
       /\ runResult = "failure"
       /\ pc = "done"
       /\ \A i \in DOMAIN fut[4] : IsDone(fut[4][i])
       /\ \A s \in 5..7 : stepResult[s] = "notrun"
       /\ \A h \in DOMAIN cmds :
             \A c \in {"flannel", "storage", "patch", "get_nodes", "get_pods"} :
                ~HasCmd(h, c)

\* one of two workers failed to join, the other joined
C7_Witness ==
    /\ C7_SingleWorkerLost
    /\ Len(worker_nodes) = 2
    /\ \E i \in DOMAIN fut[4] : fut[4][i] = "true"

\* C8: when the join of one worker fails the worker-join step returns
\* failure while the control-plane join step keeps its success and is not
\* run again: every control-plane node but the first has received exactly
\* one join command and the first none.
C8_WorkerFailureKeepsControlPlane ==
    (Finished(4) /\ \E i \in DOMAIN fut[4] : fut[4][i] \in {"false", "exc"}) =>
       /\ stepResult[4] = "fail"
       /\ stepResult[3] = "ok"
       /\ CountOf(started, 3) = 1
       /\ CountCmd(control_plane_nodes[1].hostname, "join") = 0
       /\ \A k \in 2..Len(control_plane_nodes) :
             /\ CountCmd(control_plane_nodes[k].hostname, "join") = 1
             /\ \A c \in CallsOf(control_plane_nodes[k].hostname, "join") :
                   cmds[control_plane_nodes[k].hostname][c].rc = "ok"

\* one of three workers failed to join
C8_Witness ==
    /\ Finished(4)
    /\ Len(worker_nodes) = 3
    /\ Cardinality({i \in DOMAIN fut[4] : fut[4][i] = "false"}) = 1
    /\ Cardinality({i \in DOMAIN fut[4] : fut[4][i] = "true"}) = 2

\* the join call on the k-th control-plane node failed
CPJoinFailed(k) ==
    LET h == control_plane_nodes[k].hostname
    IN \E c \in CallsOf(h, "join") : cmds[h][c].rc # "ok"

\* C9: the control-plane nodes after the first are joined one at a time in
\* topology order (a node is sent the join only after every earlier one
\* joined successfully); at the first join that fails no later
\* control-plane node and no worker is sent a join, the worker-join step is
\* not started and the run ends in failure.
C9_ControlPlaneJoinAborts ==
    /\ \A k \in 2..Len(control_plane_nodes) :
          HasCmd(control_plane_nodes[k].hostname, "join") =>
             \A j \in 2..(k - 1) :
                /\ CountCmd(control_plane_nodes[j].hostname, "join") = 1
                /\ ~CPJoinFailed(j)
    /\ \A k \in 2..Len(control_plane_nodes) :
          CPJoinFailed(k) =>
             /\ \A j \in (k + 1)..Len(control_plane_nodes) :
                   ~HasCmd(control_plane_nodes[j].hostname, "join")
             /\ \A w \in 1..Len(worker_nodes) :
                   ~HasCmd(worker_nodes[w].hostname, "join")
             /\ stepResult[3] = "fail"
             /\ stepResult[4] = "notrun"
             /\ runResult = "failure"
             /\ pc = "done"

\* the second of three control-plane nodes failed to join with a usable
\* credential and a worker was waiting
C9_Witness ==
    /\ Len(control_plane_nodes) = 3
    /\ Len(worker_nodes) >= 1
    /\ control_plane_join_cmd.st = "str"
    /\ CPJoinFailed(2)

\* C10: a join command is issued to a node only after
\* initialize_control_plane ran kubeadm init with exit code 0 and assigned
\* both credentials, and it carries one of them.
C10_CredentialBeforeJoin ==
    \A h \in DOMAIN cmds :
       \A c \in CallsOf(h, "join") :
          /\ stepResult[2] = "ok"
          /\ control_plane_join_cmd.st # "absent"
          /\ worker_join_cmd.st # "absent"
          /\ \E m \in DOMAIN cmds :
                \E k \in CallsOf(m, "init") : cmds[m][k].rc = "ok"
          /\ cmds[h][c].arg \in {control_plane_join_cmd, worker_join_cmd}

\* a worker was sent the worker credential extracted from the transcript
C10_Witness ==
    \E w \in 1..Len(worker_nodes) :
       \E c \in CallsOf(worker_nodes[w].hostname, "join") :
          /\ cmds[worker_nodes[w].hostname][c].arg.st = "str"
          /\ cmds[worker_nodes[w].hostname][c].arg = worker_join_cmd

\* C11: the join credentials are written only by initialize_control_plane:
\* once that step has returned or raised, no step of the run changes either
\* credential (so nothing writes them while the worker joins run in
\* parallel), and every join sent to a worker carries the one worker
\* credential of the run.
C11_SameCredential ==
    \A w \in 1..Len(worker_nodes) :
       \A c \in CallsOf(worker_nodes[w].hostname, "join") :
          /\ cmds[worker_nodes[w].hostname][c].arg = worker_join_cmd
          /\ \A v \in 1..Len(worker_nodes) :
                \A d \in CallsOf(worker_nodes[v].hostname, "join") :
                   cmds[worker_nodes[v].hostname][d].arg =
                      cmds[worker_nodes[w].hostname][c].arg

C11_OnlyRead == Finished(2) => UNCHANGED creds

C11_CredentialsWrittenOnce == []C11_SameCredential /\ [][C11_OnlyRead]_vars

\* two workers were both sent the extracted worker credential while a
\* third join was still running
C11_Witness ==
    /\ step = 4
    /\ worker_join_cmd.st = "str"
    /\ \E v, w \in 1..Len(worker_nodes) :
          /\ v # w
          /\ HasCmd(worker_nodes[v].hostname, "join")
          /\ HasCmd(worker_nodes[w].hostname, "join")
    /\ \E i \in DOMAIN fut[4] : IsRunning(fut[4][i])

\* C12: a credential that the transcript left unset (None) makes every step
\* that needs it fail: a join sent with an unset credential never succeeds,
\* the control-plane join step fails when there are at least two
\* control-plane nodes, the worker join step fails when there is at least
\* one worker, and the run does not end in success.
C12_UnsetCredentialFails ==
    /\ \A h \in DOMAIN cmds :
          \A c \in CallsOf(h, "join") :
             cmds[h][c].arg.st # "str" => cmds[h][c].rc = "fail"
    /\ (control_plane_join_cmd = None /\ Len(control_plane_nodes) >= 2
          /\ Finished(3)) => stepResult[3] = "fail"
    /\ (worker_join_cmd = None /\ Len(worker_nodes) >= 1 /\ Finished(4))
          => stepResult[4] = "fail"
    /\ runResult = "success" =>
          /\ Len(control_plane_nodes) >= 2 => control_plane_join_cmd.st = "str"
          /\ Len(worker_nodes) >= 1 => worker_join_cmd.st = "str"

\* the transcript had no worker join line, a worker was sent the unset
\* credential and the run failed in the worker join step
C12_Witness ==
    /\ worker_join_cmd = None
    /\ stepResult[3] = "ok"
    /\ stepResult[4] = "fail"
    /\ runResult = "failure"
    /\ \E w \in 1..Len(worker_nodes) :
          \E c \in CallsOf(worker_nodes[w].hostname, "join") :
             /\ cmds[worker_nodes[w].hostname][c].arg = None
             /\ cmds[worker_nodes[w].hostname][c].rc = "fail"

(***************************************************************************)
(* Properties of _extract_join_commands (SpecExtract).                     *)
(***************************************************************************)
IsJoinLine(l) == Contains(l, "kubeadm join")

IsControlPlaneLine(l) == IsJoinLine(l) /\ Contains(l, "--control-plane")

IsWorkerLine(l) == IsJoinLine(l) /\ ~Contains(l, "--control-plane")

Scanned == line_no >= 0 /\ line_no = Len(init_output)

\* the transcript has exactly one control-plane join line (at i) and exactly
\* one other join line (at j)
OneOfEachKind(i, j) ==
    /\ IsControlPlaneLine(init_output[i])
    /\ IsWorkerLine(init_output[j])
    /\ \A k \in DOMAIN init_output : k \notin {i, j} => ~IsJoinLine(init_output[k])

\* the line just scanned, if it is a join line, is stored with its
\* surrounding whitespace removed as the credential of its kind
C13_Classified ==
    line_no >= 1 =>
       LET l == init_output[line_no] IN
       /\ IsControlPlaneLine(l) => control_plane_join_cmd = Str(strip(l))
       /\ IsWorkerLine(l) => worker_join_cmd = Str(strip(l))

\* scanning a line changes at most the credential of its kind, and nothing
\* when the line has no join command
C13_OneKindOnly ==
    line_no' = line_no + 1 /\ line_no >= 0 =>
       LET l == init_output[line_no + 1] IN
       /\ IsControlPlaneLine(l) => UNCHANGED worker_join_cmd
       /\ IsWorkerLine(l) => UNCHANGED control_plane_join_cmd
       /\ ~IsJoinLine(l) => UNCHANGED creds

\* a transcript with one line of each kind, in either order, gives two set
\* and distinct credentials: the two lines, stripped
C13_OneOfEach ==
    Scanned =>
       \A i, j \in DOMAIN init_output :
          OneOfEachKind(i, j) =>
             /\ control_plane_join_cmd = Str(strip(init_output[i]))
             /\ worker_join_cmd = Str(strip(init_output[j]))
             /\ control_plane_join_cmd # worker_join_cmd

\* a kind with no line in the transcript leaves its credential None
C13_NoLineNoCredential ==
    Scanned =>
       /\ (\A k \in DOMAIN init_output : ~IsControlPlaneLine(init_output[k]))
             => control_plane_join_cmd = None
       /\ (\A k \in DOMAIN init_output : ~IsWorkerLine(init_output[k]))
             => worker_join_cmd = None

\* C13 as stated: for a transcript with one join line of each kind the two
\* credentials are exactly those two lines.
C13_Original ==
    Scanned =>
       \A i, j \in DOMAIN init_output :
          OneOfEachKind(i, j) =>
             /\ control_plane_join_cmd = Str(init_output[i])
             /\ worker_join_cmd = Str(init_output[j])

\* C13 (amended): every line with the join command is classified into
\* exactly one kind, with the control-plane marker as the control-plane
\* credential and without it as the worker credential; the credential is
\* the line with its leading and trailing whitespace removed; a transcript
\* with one line of each kind, in either order, yields both credentials,
\* set and distinct; lines without the join command change neither
\* credential, and a kind without a line stays unset.
C13_Extraction ==
    /\ [](C13_Classified /\ C13_OneOfEach /\ C13_NoLineNoCredential)
    /\ [][C13_OneKindOnly]_vars

\* a padded worker line followed by a padded control-plane line were both
\* scanned and stored stripped
C13_Witness ==
    /\ Scanned
    /\ Len(init_output) = 2
    /\ OneOfEachKind(2, 1)
    /\ init_output[1] # strip(init_output[1])
    /\ init_output[2] # strip(init_output[2])
    /\ control_plane_join_cmd = Str(strip(init_output[2]))
    /\ worker_join_cmd = Str(strip(init_output[1]))

(***************************************************************************)
(* Properties of remove_node (SpecRemove).                                 *)
(***************************************************************************)
RmCalls(c) == {k \in 1..Len(rm_log) : rm_log[k].cmd = c}

\* remove_node has returned (and remove_node.py may have ended since)
RemoveReturned == rm_pc \in {"done", "exited"} /\ rm_ret # "none"

ResetCommands == {"kubeadm reset", "iptables", "ip link delete", "rm -rf"}

ResetPhase == {"reset", "cleanup_iptables", "cleanup_network", "cleanup_dirs"}

\* the node was not found in the cluster, or kubectl drain failed
DrainFailure ==
    \/ \E k \in RmCalls("get node") : rm_log[k].rc = "fail"
    \/ \E k \in RmCalls("drain") : rm_log[k].rc = "fail"

\* C14: a drain counts as failed both when the node cannot be found in the
\* cluster and when kubectl drain fails; after a failed drain without
\* force the delete command is never issued and remove_node returns
\* failure, with force the delete command is still issued.
C14_DrainFailure ==
    /\ DrainFailure => rm_drained = "False"
    /\ (rm_drained = "False" /\ ~rm_args.force) =>
          /\ RmCalls("delete") = {}
          /\ RemoveReturned
          /\ rm_ret = "False"
    /\ (rm_drained = "False" /\ rm_args.force) =>
          \/ rm_pc = "delete"
          \/ \E d \in RmCalls("delete") :
                \A k \in RmCalls("get node") \cup RmCalls("drain") : k < d

\* the node was not found in the cluster and, with force, the delete was
\* issued all the same
C14_Witness ==
    /\ rm_args.force
    /\ rm_info = "None"
    /\ rm_drained = "False"
    /\ RmCalls("drain") = {}
    /\ RmCalls("delete") # {}

\* C15: a failed delete is fatal whatever force and reset are: remove_node
\* returns failure and no reset command is issued on the node.
C15_DeleteFailureFatal ==
    (\E k \in RmCalls("delete") : rm_log[k].rc = "fail") =>
       /\ RemoveReturned
       /\ rm_ret = "False"
       /\ \A k \in 1..Len(rm_log) : rm_log[k].cmd \notin ResetCommands

\* the delete failed after a forced drain with reset requested
C15_Witness ==
    /\ rm_args.force
    /\ rm_args.reset
    /\ rm_drained = "True"
    /\ \E k \in RmCalls("delete") : rm_log[k].rc = "fail"
    /\ rm_ret = "False"

\* C16: the reset phase runs only when reset is enabled and only after a
\* successful delete, on the node being removed, and its failures are not
\* escalated: once the delete succeeded remove_node returns success
\* whether the reset commands succeed or fail.
C16_ResetBestEffort ==
    /\ \A k \in 1..Len(rm_log) :
          rm_log[k].cmd \in ResetCommands =>
             /\ rm_args.reset
             /\ rm_log[k].host = rm_node_info.ip_address
             /\ \E d \in RmCalls("delete") : d < k /\ rm_log[d].rc = "ok"
    /\ rm_pc \in ResetPhase =>
          /\ rm_args.reset
          /\ \E d \in RmCalls("delete") : rm_log[d].rc = "ok"
    /\ (rm_pc \in {"done", "exited"}
          /\ \E d \in RmCalls("delete") : rm_log[d].rc = "ok")
          => rm_ret = "True"
    /\ rm_ret = "True" => \E d \in RmCalls("delete") : rm_log[d].rc = "ok"

\* kubeadm reset failed on the node after a successful delete and
\* remove_node returned True
C16_Witness ==
    /\ rm_pc = "done"
    /\ rm_ret = "True"
    /\ \E k \in RmCalls("kubeadm reset") : rm_log[k].rc = "fail"

(***************************************************************************)
(* Properties of add_node and add_nodes_from_inventory (SpecAdd).          *)
(***************************************************************************)
\* the calls and sleeps made for the i-th node, in order
NodeTrace(i) == SelectSeq(ad_log, LAMBDA c : c.node = i)

\* prepare (copy, chmod, run), credential, join, settle, verify
\* (registered, Ready)
StageOrder ==
    <<"copy", "chmod", "run", FetchCommand(ad_args.node_type), "join", "sleep",
      "get nodes", "ready">>

\* the call did what its stage needs: a usable join command was printed,
\* the Ready condition read True, the command exited 0
Succeeded(c) ==
    CASE c.cmd \in {"token create", "upload-certs"} -> Truthy(c.out)
      [] c.cmd = "ready" -> c.rc = "ok" /\ c.out = Str(<<"True">>)
      [] OTHER -> c.rc = "ok"

FetchCalls ==
    {k \in 1..Len(ad_log) : ad_log[k].cmd = FetchCommand(ad_args.node_type)}

\* C17: add_node runs its stages in the fixed order prepare, obtain the
\* join credential from the master, join on the target, settle delay,
\* verify registered and Ready; each stage is attempted at most once and
\* only after the previous one succeeded; the first failing stage makes
\* add_node return failure with no later stage touched, and add_node
\* returns success only if the verification succeeded.
C17_StagesInOrder ==
    \A i \in 1..ad_args.new_nodes :
       LET tr == NodeTrace(i) IN
       /\ Len(tr) <= Len(StageOrder)
       /\ \A k \in 1..Len(tr) :
             /\ tr[k].cmd = StageOrder[k]
             /\ tr[k].host = CASE tr[k].cmd \in {"copy", "chmod", "run", "join"} -> i
                                [] tr[k].cmd = "sleep" -> -1
                                [] OTHER -> 0
             /\ k < Len(tr) => Succeeded(tr[k])
       /\ Len(tr) >= 5 => tr[5].arg = tr[4].out
       /\ IF i <= Len(ad_rets)
          THEN /\ ad_rets[i] = "True" =>
                     Len(tr) = Len(StageOrder) /\ Succeeded(tr[Len(tr)])
               /\ ad_rets[i] = "False" =>
                     tr # <<>> /\ ~Succeeded(tr[Len(tr)])
          ELSE \A k \in 1..Len(tr) : Succeeded(tr[k])

\* the first node was given up when its join failed, the second went
\* through every stage and was verified
C17_Witness ==
    /\ Len(ad_rets) >= 2
    /\ ad_rets[1] = "False"
    /\ Len(NodeTrace(1)) = 5
    /\ NodeTrace(1)[5].rc = "fail"
    /\ ad_rets[2] = "True"
    /\ Len(NodeTrace(2)) = 8

\* C18: add_nodes_from_inventory issues the command that generates the
\* join credential on the master exactly once per batch, before the first
\* node, and joins every node of the batch with that credential.
C18_Original ==
    ad_args.entry = "add_nodes_from_inventory" =>
       /\ Cardinality(FetchCalls) <= 1
       /\ ad_pc = "done" => Cardinality(FetchCalls) = 1
       /\ \A k \in 1..Len(ad_log) :
             /\ ad_log[k].node >= 1 => \E f \in FetchCalls : f < k
             /\ ad_log[k].cmd = "join" => ad_log[k].arg = ad_batch_cmd

\* C19 as stated: every node of the batch is attempted and the result is
\* the number of nodes added.
C19_Original ==
    (ad_args.entry = "add_nodes_from_inventory" /\ ad_pc = "done") =>
       /\ Len(ad_rets) = ad_args.new_nodes
       /\ \A i \in 1..ad_args.new_nodes : NodeTrace(i) # <<>>
       /\ ad_ret = PyInt(ad_count)

\* C19 (amended): once the credential fetch that opens the batch has
\* succeeded, the nodes are processed one after the other in the given
\* order and every node is attempted even when earlier ones failed;
\* success_count is the number of nodes whose add_node returned True; the
\* value returned is a bool, True exactly when every node was added; when
\* the opening fetch fails, False is returned and no node is attempted.
C19_BatchTolerant ==
    ad_args.entry = "add_nodes_from_inventory" =>
       /\ ad_count = Cardinality({k \in 1..Len(ad_rets) : ad_rets[k] = "True"})
       /\ \A j, k \in 1..Len(ad_log) :
             j < k => ad_log[j].node <= ad_log[k].node
       /\ ad_pc # "done" => ad_ret = PyNone
       /\ ad_pc = "done" =>
             IF Truthy(ad_batch_cmd)
             THEN /\ Len(ad_rets) = ad_args.new_nodes
                  /\ \A i \in 1..ad_args.new_nodes : NodeTrace(i) # <<>>
                  /\ ad_ret = PyBool(ad_count = ad_args.new_nodes)
             ELSE /\ ad_rets = <<>>
                  /\ Len(ad_log) = 1
                  /\ ad_ret = PyBool(FALSE)

\* a batch whose first node failed and whose later node was still added:
\* one success counted, False returned
C19_Witness ==
    /\ ad_args.entry = "add_nodes_from_inventory"
    /\ ad_pc = "done"
    /\ ad_args.new_nodes >= 2
    /\ Len(ad_rets) = ad_args.new_nodes
    /\ ad_rets[1] = "False"
    /\ ad_rets[ad_args.new_nodes] = "True"
    /\ ad_count = 1
    /\ ad_ret = PyBool(FALSE)

(***************************************************************************)
(* Properties of the topology (SpecTopology).                              *)
(***************************************************************************)
Hostnames(hs) == {hs[i].hostname : i \in 1..Len(hs)}

\* C20: the topology is a prefix split of the parsed node sequence:
\* control_plane_nodes is the first min(K, N) nodes, worker_nodes the
\* remainder, control_plane_nodes followed by worker_nodes is the full node
\* list in the same order, every node is in exactly one of the two sets, and
\* the role of every node, in the full list and in both sets, is that of
\* the set it is in, whatever role the inventory file gave it.
C20_PrefixSplit ==
    pc = "ctor_done" =>
       LET N == Len(inventory)
           K == Min(control_plane_count, N)
       IN /\ Len(nodes) = N
          /\ \A i \in 1..N : nodes[i].hostname = parse_file(inventory)[i].hostname
          /\ control_plane_nodes = SubSeq(nodes, 1, K)
          /\ worker_nodes = SubSeq(nodes, K + 1, N)
          /\ control_plane_nodes \o worker_nodes = nodes
          /\ Hostnames(control_plane_nodes) \cap Hostnames(worker_nodes) = {}
          /\ Hostnames(control_plane_nodes) \cup Hostnames(worker_nodes)
                = Hostnames(nodes)
          /\ \A i \in 1..N :
                nodes[i].role = IF i <= K THEN "control-plane" ELSE "worker"
          /\ \A j \in 1..Len(control_plane_nodes) :
                control_plane_nodes[j].role = "control-plane"
          /\ \A j \in 1..Len(worker_nodes) : worker_nodes[j].role = "worker"

\* an inventory of more than three hosts whose file calls a later host a
\* control-plane node and gives the first host no role was resolved
C20_Witness ==
    /\ pc = "ctor_done"
    /\ Len(inventory) > control_plane_count
    /\ inventory[1] = "absent"
    /\ inventory[Len(inventory)] = "control-plane"
    /\ worker_nodes # <<>>

(***************************************************************************)
(* Properties of the resolver called with a count (SpecResolve).           *)
(***************************************************************************)
\* the role position i (from 0) has under the control-plane count K
RoleAt(i, K) == IF i < K THEN "control-plane" ELSE "worker"

\* C21: for every control-plane count K and every node sequence, each of
\* the three resolver operations gives the node at index i the role
\* control-plane if i < K and worker otherwise, in the order of the file:
\* get_all_nodes returns every node with that role, get_control_plane_nodes(K)
\* the nodes before the boundary, get_worker_nodes(K) the nodes from it on.
C21_Original ==
    pc = "resolve_done" =>
       LET hs == parse_file(inventory)
           N == Len(hs)
           B == Min(count, N)
       IN /\ Len(nodes) = N
          /\ \A i \in 1..N :
                /\ nodes[i].hostname = hs[i].hostname
                /\ nodes[i].role = RoleAt(i - 1, count)
          /\ Len(control_plane_nodes) = B
          /\ \A i \in 1..B :
                /\ control_plane_nodes[i].hostname = hs[i].hostname
                /\ control_plane_nodes[i].role = RoleAt(i - 1, count)
          /\ Len(worker_nodes) = N - B
          /\ \A i \in B + 1..N :
                /\ worker_nodes[i - B].hostname = hs[i].hostname
                /\ worker_nodes[i - B].role = RoleAt(i - 1, count)


(***************************************************************************)
(* Properties of parse and _normalize_host (SpecParse).                    *)
(***************************************************************************)
\* the value alias resolution reads for a standard key: that of the first
\* alias the record has, "" when it has none
AliasValue(r, k) ==
    LET present == {j \in 1..Len(key_mappings[k]) : key_mappings[k][j] \in DOMAIN r}
    IN IF present = {} THEN ""
       ELSE r[key_mappings[k][CHOOSE j \in present : \A m \in present : j <= m]]

\* the non-empty values a record gives under the aliases of a standard key
GivenValues(r, k) ==
    {r[key_mappings[k][j]] : j \in {j \in 1..Len(key_mappings[k]) :
                                      key_mappings[k][j] \in DOMAIN r}} \ {""}

\* after alias resolution neither hostname nor address has a non-empty value
Unidentified(r) == AliasValue(r, "hostname") = "" /\ AliasValue(r, "ip_address") = ""

UnidentifiedRows == {i \in 1..Len(raw) : Unidentified(raw[i])}

\* C22: a raw record in which, after alias resolution, neither hostname nor
\* IP address has a non-empty value always fails normalization with the
\* invalid-host error, and the failure aborts the whole parse: parse never
\* appends a host for such a record, never returns when the file has one,
\* and ends with the invalid-host error at the first such record.
C22_InvalidHostAborts ==
    /\ \A i \in UnidentifiedRows : Len(hosts) < i
    /\ parse_pc = "returned" => UnidentifiedRows = {} /\ Len(hosts) = Len(raw)
    /\ parse_pc = "raised" =>
          /\ parse_exc = InvalidHost
          /\ Len(hosts) + 1 \in UnidentifiedRows
    /\ parse_pc = "records" /\ Len(hosts) + 1 \in UnidentifiedRows =>
          ~ENABLED ParseReturn

\* a valid record was normalized, then a record whose only hostname is
\* hidden behind an empty first alias and that has no address ended parse
C22_Witness ==
    /\ parse_pc = "raised"
    /\ Len(hosts) = 1
    /\ raw[2] = [hostname |-> "", host |-> "n2"]

\* C23 as stated: every Node returned by parsing has a non-empty hostname;
\* when the record gives no hostname under any alias but gives an address,
\* the hostname equals ip_address; when a hostname is given it is kept.
C23_Original ==
    parse_pc = "returned" =>
       \A i \in 1..Len(hosts) :
          /\ hosts[i].hostname # ""
          /\ GivenValues(raw[i], "hostname") = {} =>
                hosts[i].hostname = hosts[i].ip_address
          /\ GivenValues(raw[i], "hostname") # {} =>
                hosts[i].hostname \in GivenValues(raw[i], "hostname")

\* C23: every Node returned by parsing has a non-empty hostname: it is the
\* value of the first hostname alias the record has (hostname, host, name,
\* fqdn) when that value is non-empty, unchanged; otherwise, also when a
\* later alias has a non-empty value, it equals the node's ip_address,
\* which is the value of the first address alias the record has.
C23_HostnameOrAddress ==
    parse_pc = "returned" =>
       \A i \in 1..Len(hosts) :
          /\ hosts[i].hostname # ""
          /\ hosts[i].ip_address = AliasValue(raw[i], "ip_address")
          /\ hosts[i].hostname =
                IF AliasValue(raw[i], "hostname") # ""
                THEN AliasValue(raw[i], "hostname")
                ELSE hosts[i].ip_address

\* parse returned a host named by its address although the record gave a
\* hostname under a later alias, after a host that kept its hostname
C23_Witness ==
    /\ parse_pc = "returned"
    /\ Len(hosts) = 2
    /\ raw[1] = [host |-> "n2", ip |-> "a2"]
    /\ hosts[1].hostname = "n2"
    /\ raw[2] = [hostname |-> "", host |-> "n2", ip_address |-> "a1"]
    /\ hosts[2].hostname = "a1"

(***************************************************************************)
(* Properties of the remote capabilities (SpecRemote, SpecRemoteLive).     *)
(***************************************************************************)
\* the calls made through run_ssh_command that have returned
SshReturns ==
    {i \in 1..Len(rx_log) :
        /\ StepCalls(rx_fn)[i].via = "ssh"
        /\ rx_log[i].ret.type # "NoneType"}

\* a step in which run_ssh_command handles a timeout or a local failure
TimeoutOrLocalFailure ==
    (RemoteTimesOut \/ RemoteSpawnFails) /\ rx_call.via = "ssh"

\* the capability returns -1, no output and the failure detail
MinusOneWithDetail ==
    /\ rx_ret'.items[1] = -1
    /\ rx_ret'.items[2] = ""
    /\ rx_ret'.items[3] \in SpawnErrors \cup {"Command timed out"}

\* a step function holds a non-zero exit code returned by run_ssh_command
NonZeroReturned ==
    rx_pc = "returned" /\ rx_call.via = "ssh" /\ rx_ret.items[1] # 0

\* C25: run_ssh_command never raises to its caller: every call returns a
\* complete (exit code, stdout, stderr) triple; on a timeout or any local
\* failure the exit code is -1 and stderr holds the failure detail; and
\* every step function treats a non-zero exit code, -1 included, as the
\* failure of that command: it makes no further call and returns False.
C25_NeverRaises ==
    /\ [](/\ rx_pc # "raised"
          /\ \A i \in SshReturns :
                /\ rx_log[i].ret.type = "tuple"
                /\ Len(rx_log[i].ret.items) = 3
                /\ rx_log[i].ret.items[1] \in {-1, 0, 1, 255}
                /\ rx_log[i].ret.items[1] # 0 =>
                      /\ i = Len(rx_log)
                      /\ rx_pc = "done" => rx_res = PyBool(FALSE))
    /\ [][TimeoutOrLocalFailure => MinusOneWithDetail]_vars
    /\ [][NonZeroReturned => rx_pc' = "done" /\ rx_res' = PyBool(FALSE)]_vars

\* verify_cluster ended with False after its second command timed out
C25_Witness ==
    /\ rx_fn = "verify_cluster"
    /\ rx_pc = "done"
    /\ rx_res = PyBool(FALSE)
    /\ Len(rx_log) = 2
    /\ rx_ret = PyTuple(<<-1, "", "Command timed out">>)

\* C26: no operation blocks indefinitely: every remote interaction, command
\* execution and file copy alike, is bounded by a timeout, so a step
\* function always eventually returns even when the remote host never
\* responds.
C26_Original == <>(rx_pc = "done")

\* the calls prepare_node and prepare_new_node make, in order
PrepareOrder == <<"prepare_node.sh", "chmod", "run prepare_node.sh">>

\* the i-th call issued has returned a success
CallSucceeded(i) ==
    /\ rx_log[i].ret.type # "NoneType"
    /\ IF rx_log[i].ret.type = "bool"
       THEN rx_log[i].ret.val = 1
       ELSE rx_log[i].ret.items[1] = 0

\* C29: prepare_node (and prepare_new_node of add_node.py) performs on one
\* node, in order, the copy of the preparation script, the chmod and the
\* script run: a call is issued only after every call before it succeeded,
\* so after the first that fails no later one is issued, and it returns
\* success exactly when the copy succeeded and both commands exited with 0.
C29_PrepareInOrder ==
    rx_fn \in {"prepare_node", "prepare_new_node"} =>
       /\ Len(rx_log) <= 3
       /\ \A i \in 1..Len(rx_log) :
             /\ rx_log[i].cmd = PrepareOrder[i]
             /\ i < Len(rx_log) => CallSucceeded(i)
       /\ rx_pc = "done" =>
             /\ rx_res \in {PyBool(TRUE), PyBool(FALSE)}
             /\ rx_res = PyBool(TRUE) <=>
                   Len(rx_log) = 3 /\ \A i \in 1..3 : CallSucceeded(i)

\* prepare_node returned False after the chmod exited with 1: the script
\* was copied and never run
C29_Witness ==
    /\ rx_fn = "prepare_node"
    /\ rx_pc = "done"
    /\ rx_res = PyBool(FALSE)
    /\ Len(rx_log) = 2
    /\ rx_log[1].ret = PyBool(TRUE)
    /\ rx_log[2].ret = PyTuple(<<1, "chmod", "">>)

(***************************************************************************)
(* Properties of the pipeline's failure reports and of                     *)
(* initialize_control_plane (Spec).                                        *)
(***************************************************************************)
\* C27: whenever a bootstrap run aborts because of a step, the step
\* reported a failure outcome, it did not raise out of the pipeline, so the
\* loop of bootstrap_cluster reports the name of the failing step and
\* returns failure; for every topology, also one with no nodes or with
\* fewer nodes than K.
C27_Original ==
    (pc = "done" /\ runResult # "success") =>
       /\ stepResult[step] = "fail"
       /\ runResult = "failure"

\* some call of command c on host h ended with outcome o
Ended(h, c, o) == \E k \in CallsOf(h, c) : cmds[h][k].rc = o

\* C30: initialize_control_plane acts only on the first control-plane node:
\* the config is copied and kubeadm init is run there and nowhere else, init
\* is issued only after the config was copied successfully, the credentials
\* are assigned only when init exited with 0, and when the copy or init
\* fails the step reports failure and no credential is set by the run.
C30_InitOnFirstNode ==
    /\ \A h \in DOMAIN cmds :
          /\ (HasCmd(h, "scp_config") \/ HasCmd(h, "init")) =>
                control_plane_nodes # <<>> /\ h = control_plane_nodes[1].hostname
          /\ CountCmd(h, "scp_config") <= 1
          /\ CountCmd(h, "init") <= 1
          /\ HasCmd(h, "init") =>
                \E j \in CallsOf(h, "scp_config") :
                   /\ cmds[h][j].rc = "ok"
                   /\ \A k \in CallsOf(h, "init") : j < k
          /\ (Ended(h, "scp_config", "fail") \/ Ended(h, "init", "fail")) =>
                /\ stepResult[2] = "fail"
                /\ control_plane_join_cmd = Absent
                /\ worker_join_cmd = Absent
          /\ Ended(h, "init", "ok") =>
                /\ stepResult[2] = "ok"
                /\ control_plane_join_cmd # Absent
                /\ worker_join_cmd # Absent
    /\ (control_plane_join_cmd # Absent \/ worker_join_cmd # Absent) =>
          \E h \in DOMAIN cmds : Ended(h, "init", "ok")
    /\ stepResult[2] = "fail" =>
          \E h \in DOMAIN cmds :
             Ended(h, "scp_config", "fail") \/ Ended(h, "init", "fail")

\* with two control-plane nodes the config reached the first one and
\* kubeadm init then failed there: the step failed, no credential is set
C30_Witness ==
    /\ Len(control_plane_nodes) = 2
    /\ Ended(control_plane_nodes[1].hostname, "scp_config", "ok")
    /\ Ended(control_plane_nodes[1].hostname, "init", "fail")
    /\ cmds[control_plane_nodes[2].hostname] # <<>>
    /\ stepResult[2] = "fail"
    /\ worker_join_cmd = Absent

(***************************************************************************)
(* Properties of main of bootstrap_cluster.py (SpecMain).                  *)
(***************************************************************************)
\* the lines of the dry-run report for an inventory of N hosts
DryRunReport(N, version) ==
    <<Count_line("Control plane nodes", Min(3, N)),
      Count_line("Worker nodes", N - Min(3, N)),
      Text_line("Kubernetes version", version)>>

\* C24: in dry-run mode the CLI resolves the topology and the configuration
\* and reports the control-plane count, the worker count and the Kubernetes
\* version (1.28.0 unless the configuration file sets another), and no
\* remote command or file copy is invoked: bootstrap_cluster is never
\* entered and no step function, the only callers of the remote
\* capabilities, is started; for 5 hosts the counts are 3 and 2.
C24_DryRun ==
    args.dry_run =>
       /\ step = 0 /\ started = <<>> /\ runResult = "none"
       /\ \A h \in DOMAIN cmds : cmds[h] = <<>>
       /\ control_plane_join_cmd = Absent /\ worker_join_cmd = Absent
       /\ pc \in {"main", "ctor_nodes", "ctor_control_plane", "ctor_workers",
                  "ctor_done", "constructed", "except", "exited"}
       /\ (pc = "exited" /\ exit_code = PyInt(0)) =>
             /\ Len(nodes) = Len(inventory)
             /\ SubSeq(stdout, 1, 3) =
                   DryRunReport(Len(inventory),
                                IF args.config = "version" THEN "1.29.0"
                                ELSE "1.28.0")
             /\ Len(inventory) = 5 =>
                   /\ stdout[1] = Count_line("Control plane nodes", 3)
                   /\ stdout[2] = Count_line("Worker nodes", 2)

\* a dry run over five hosts with the default configuration has ended
C24_Witness ==
    /\ args.dry_run
    /\ args.config = "absent"
    /\ Len(inventory) = 5
    /\ pc = "exited"
    /\ exit_code = PyInt(0)
    /\ control_plane_nodes # <<>>
    /\ stdout[3] = Text_line("Kubernetes version", "1.28.0")

AllStepsOk == \A s \in Steps : stepResult[s] = "ok"

\* C28: the bootstrap run reports success if and only if all seven steps
\* reported success, and outside dry-run the CLI exits with code 0 exactly
\* in that case and with code 1 on any step failure or raised exception
\* (of a step or of the constructor).
C28_ExitCode ==
    /\ runResult = "success" => AllStepsOk
    /\ (pc \in {"done", "exited"} /\ AllStepsOk) => runResult = "success"
    /\ (pc = "exited" /\ ~args.dry_run) =>
          /\ exit_code \in {PyInt(0), PyInt(1)}
          /\ exit_code = PyInt(0) <=> runResult = "success"
          /\ exit_code = PyInt(0) <=> AllStepsOk
          /\ (\E s \in Steps : stepResult[s] \in {"fail", "raised"}) =>
                exit_code = PyInt(1)
          /\ runResult = "none" => exit_code = PyInt(1)
    /\ (pc # "exited") => exit_code = PyNone

\* the run of a four-host inventory ended with status 1 after the seventh
\* step reported failure
C28_Witness ==
    /\ ~args.dry_run
    /\ pc = "exited"
    /\ Len(nodes) = 4
    /\ stepResult[7] = "fail"
    /\ exit_code = PyInt(1)

\* ---- C31 ----
\* the drain commands remove_node.py has sent
DrainCalls == {k \in 1..Len(rm_log) : rm_log[k].cmd = "drain"}

\* the node's spec says the node is unschedulable
MarkedUnschedulable(info) == info = "cordoned"

ForceOnlyOptions == {"--force", "--grace-period=0", "--delete-emptydir-data"}

\* C31 as stated: the drain command has --ignore-daemonsets exactly when
\* the node is not already marked unschedulable, and has --force,
\* --grace-period=0 and --delete-emptydir-data exactly when force is set,
\* none of the three without force.
C31_Original ==
    \A k \in DrainCalls :
        /\ ("--ignore-daemonsets" \in rm_log[k].flags)
               <=> ~MarkedUnschedulable(rm_info)
        /\ IF rm_args.force
           THEN ForceOnlyOptions \subseteq rm_log[k].flags
           ELSE ForceOnlyOptions \cap rm_log[k].flags = {}

\* C31 (amended): the drain command has --ignore-daemonsets exactly when
\* the node's spec carries no unschedulable value, has --force and
\* --grace-period=0 exactly when force is set, always has
\* --delete-emptydir-data, and has no other option.
C31_DrainOptions ==
    \A k \in DrainCalls :
        /\ ("--ignore-daemonsets" \in rm_log[k].flags) <=> rm_info = "plain"
        /\ ("--force" \in rm_log[k].flags) <=> rm_args.force
        /\ ("--grace-period=0" \in rm_log[k].flags) <=> rm_args.force
        /\ "--delete-emptydir-data" \in rm_log[k].flags
        /\ rm_log[k].flags \subseteq
               ForceOnlyOptions \cup {"--ignore-daemonsets"}

\* an unforced drain of a node whose spec says unschedulable false was
\* sent: it deletes emptydir data and does not ignore daemonsets
C31_Witness ==
    /\ DrainCalls # {}
    /\ ~rm_args.force
    /\ rm_info = "uncordoned"
    /\ \E k \in DrainCalls :
          rm_log[k].flags = {"--delete-emptydir-data"}

\* ---- C32 ----
\* node n goes by the name id
GoesBy(n, id) == n.hostname = id \/ n.ip_address = id

NoneGoesBy(ns, id) == \A i \in 1..Len(ns) : ~GoesBy(ns[i], id)

\* position i holds the first node of ns that goes by id
FirstGoingBy(ns, id, i) ==
    /\ i \in 1..Len(ns)
    /\ GoesBy(ns[i], id)
    /\ \A j \in 1..(i - 1) : ~GoesBy(ns[j], id)

\* every call of rm_log with a command of cs went to the first node of the
\* inventory that goes by id
SentToFirst(cs, id) ==
    \A k \in 1..Len(rm_log) :
        rm_log[k].cmd \in cs =>
            \E i \in 1..Len(rm_nodes) :
                /\ FirstGoingBy(rm_nodes, id, i)
                /\ rm_log[k].host = rm_nodes[i].ip_address

\* NodeRemover.__init__ has run: without a node for the master identifier
\* it failed, nothing was sent and remove_node.py ends with status 1, else
\* the master is the first such node and the cluster commands go to it
RemoverMasterLookup ==
    rm_pc \notin {"idle", "new"} =>
        IF NoneGoesBy(rm_nodes, rm_args.master_node)
        THEN /\ rm_pc \in {"error", "exited"}
             /\ rm_log = <<>>
             /\ rm_ret = "none"
             /\ rm_pc = "exited" => rm_exit = PyInt(1)
        ELSE /\ rm_pc # "error"
             /\ FirstGoingBy(rm_nodes, rm_args.master_node, rm_master)
             /\ SentToFirst({"get node", "drain", "delete", "list nodes",
                             "describe node"}, rm_args.master_node)

\* remove_node has looked its target up: without a node for the identifier
\* it returned False and nothing was sent, else the commands of the reset
\* phase go to the first such node
RemoverTargetLookup ==
    (/\ rm_pc \notin {"idle", "new", "remove"}
     /\ ~NoneGoesBy(rm_nodes, rm_args.master_node)
     /\ RemoverEntryPc(rm_args) = "remove") =>
        IF NoneGoesBy(rm_nodes, rm_args.node_identifier)
        THEN RemoveReturned /\ rm_ret = "False" /\ rm_log = <<>>
        ELSE SentToFirst(ResetCommands, rm_args.node_identifier)

\* NodeAdder.__init__ has run: as NodeRemover.__init__
AdderMasterLookup ==
    ad_pc \notin {"idle", "new"} =>
        IF NoneGoesBy(ad_nodes, ad_args.master_node)
        THEN ad_pc = "error" /\ ad_log = <<>> /\ ad_rets = <<>>
        ELSE /\ ad_pc # "error"
             /\ FirstGoingBy(ad_nodes, ad_args.master_node, ad_master)

\* C32: a lookup by identifier finds a node whose hostname or ip_address
\* is the identifier, the first one in inventory order; constructing
\* NodeRemover / NodeAdder fails when no node goes by the master
\* identifier, and remove_node returns False when no node goes by the
\* target identifier, with no remote command sent in either case.
C32_Lookup ==
    /\ RemoverMasterLookup
    /\ RemoverTargetLookup
    /\ AdderMasterLookup

\* two nodes go by the master identifier (one by hostname, one by
\* address), the first one was taken, and remove_node returned False for
\* a target nobody goes by, having sent nothing
C32_Witness ==
    /\ rm_pc = "done"
    /\ Len(rm_nodes) = 2
    /\ rm_nodes[1].ip_address = rm_args.master_node
    /\ rm_nodes[2].hostname = rm_args.master_node
    /\ rm_master = 1
    /\ NoneGoesBy(rm_nodes, rm_args.node_identifier)
    /\ rm_ret = "False"
    /\ rm_log = <<>>

\* ---- C33 ----
\* the commands the bootstrap sends to the first control-plane node alone
MasterOnlyCommands ==
    {"scp_config", "init", "flannel", "storage", "patch", "get_nodes",
     "get_pods"}

\* host h is a control-plane node after the first, a worker node
LaterControlPlane(h) ==
    \E k \in 2..Len(control_plane_nodes) : control_plane_nodes[k].hostname = h

IsWorker(h) == \E w \in 1..Len(worker_nodes) : worker_nodes[w].hostname = h

\* what host h was sent as join commands
JoinArgs(h) == {cmds[h][k].arg : k \in CallsOf(h, "join")}

\* C33: in a bootstrap run every node is sent at most one join command, the
\* first control-plane node none; a later control-plane node is sent only
\* the control-plane credential, a worker only the worker credential; the
\* init, networking, storage and verify commands go to the first
\* control-plane node only.
C33_JoinRouting ==
    \A h \in DOMAIN cmds :
        /\ CountCmd(h, "join") <= 1
        /\ HasCmd(h, "join") =>
              /\ control_plane_nodes # <<>>
              /\ h # control_plane_nodes[1].hostname
              /\ LaterControlPlane(h) \/ IsWorker(h)
        /\ LaterControlPlane(h) => JoinArgs(h) \subseteq {control_plane_join_cmd}
        /\ IsWorker(h) => JoinArgs(h) \subseteq {worker_join_cmd}
        /\ (\E c \in MasterOnlyCommands : HasCmd(h, c)) =>
              /\ control_plane_nodes # <<>>
              /\ h = control_plane_nodes[1].hostname

\* a run with three control-plane nodes and a worker succeeded with two
\* different credentials: the second and third control-plane node got the
\* control-plane one, the worker the other, the first node the verify
\* commands and no join
C33_Witness ==
    /\ runResult = "success"
    /\ Len(control_plane_nodes) = 3
    /\ Len(worker_nodes) >= 1
    /\ control_plane_join_cmd.st = "str"
    /\ worker_join_cmd.st = "str"
    /\ control_plane_join_cmd # worker_join_cmd
    /\ \A k \in 2..3 :
          JoinArgs(control_plane_nodes[k].hostname) = {control_plane_join_cmd}
    /\ \A w \in 1..Len(worker_nodes) :
          JoinArgs(worker_nodes[w].hostname) = {worker_join_cmd}
    /\ JoinArgs(control_plane_nodes[1].hostname) = {}
    /\ HasCmd(control_plane_nodes[1].hostname, "get_pods")

====
